---- MODULE Spec2Model ----
(***************************************************************************)
(* Model of ubuntu-proxy-manager's request serialization and lifecycle     *)
(* engine: internal/lifecycle (Lifecycle) and the D-Bus object of          *)
(* internal/app that funnels Apply calls through it (Spec, FairSpec).      *)
(* Further specifications cover the command (MainSpec, MainFairSpec), the  *)
(* context-based App (CtxSpec), the proxy backends (ProxySpec) and the     *)
(* authorizer (AuthSpec); each leaves the other components' variables at   *)
(* their initial value.                                                    *)
(*                                                                         *)
(* Every goroutine is a process with a program counter; one action is one  *)
(* access to shared state (a sync primitive, the errors slice, a channel). *)
(***************************************************************************)
EXTENDS Integers, Sequences, FiniteSets, TLC

\* ---- bounds -------------------------------------------------------------
\* number of D-Bus Apply calls delivered during the process lifetime
NumReqs == 2
\* number of Quit() calls made during the process lifetime
NumQuits == 2

Reqs == 1..NumReqs
Quitters == 1..NumQuits

\* ---- error values -------------------------------------------------------
\* a Go error value; run is the Apply call that produced it (0: none)
NilErr == [run |-> 0, what |-> "nil"]
\* dbus.MakeFailedError: the *dbus.Error carrying the error's message
MakeFailedError(e) == [name |-> "org.freedesktop.DBus.Error.Failed", body |-> e]
\* Apply returned nil
NoDbusError == [name |-> "nil", body |-> NilErr]
\* Apply has not reached a return statement
Pending == [name |-> "pending", body |-> NilErr]
\* lifecycle.ErrTimeoutReached
ErrTimeoutReached == [kind |-> "timeout", errs |-> <<>>]
\* errors.New("application exit requested, cannot apply proxy settings")
ExitingErr == [run |-> 0, what |-> "exiting"]
AuthErr(r) == [run |-> r, what |-> "auth"]
ApplyErr(r) == [run |-> r, what |-> "apply"]

NoResult == [kind |-> "pending", errs |-> <<>>]
NilResult == [kind |-> "nil", errs |-> <<>>]

IsNonNil(e) == e # NilErr

\* errors.Join: drops nil entries, returns nil when nothing is left
Join(es) ==
  LET ne == SelectSeq(es, IsNonNil)
  IN  IF ne = <<>> THEN NilResult ELSE [kind |-> "joined", errs |-> ne]

VARIABLES
  counter,        \* Lifecycle.counter (sync.WaitGroup count)
  startedClosed,  \* Lifecycle.started has been closed (firstRun done)
  quittedClosed,  \* Lifecycle.quitted has been closed
  exitRequested,  \* Lifecycle.exitRequested
  quitMu,         \* writer holding Lifecycle.quitMu (0: free)
  appMu,          \* run holding Lifecycle.appMu (0: free)
  errors,         \* Lifecycle.errors
  pc,             \* position of each Apply call
  err,            \* the err variable of each Apply call
  result,         \* the *dbus.Error of the return statement each call reached
  authCount,      \* IsSenderAllowed invocations per Apply call
  applyCount,     \* proxy.Apply invocations per Apply call
  wpc,            \* position of the goroutine in App.Wait / Lifecycle.Wait
  wbranch,        \* the case Lifecycle.Wait's select took
  timer,          \* the timer of Lifecycle.Wait
  waitResult,     \* what Lifecycle.Wait returned
  appResult,      \* what App.Wait returned
  qpc,            \* position of each Quit call
  panicked,       \* a goroutine panicked: the process is gone
  beganAfterQuit, \* history: the Apply call began after a Quit() returned
  quitWhileHeld,  \* history: runs holding the gate when a Quit() was called
  quitBeforeStart,\* history: a Quit() was called before any Start()
  closeCalls,     \* history: close() calls made on started and on quitted
  quitWhileQueued \* history: Quit() was called with a run queued at the gate

\* the command: run(), its signal handler and the cmd it drives
VARIABLES
  args,           \* os.Args[1:]
  cmdOutcome,     \* what the Lifecycle hands to the cmd's Wait()
  mpc,            \* position of run()
  rc,             \* the exit code run() returns (-1: none yet)
  waitCalled,     \* run() has called c.Wait()
  hpc,            \* position of the signal handler goroutine
  sigBuf,         \* the signal buffered in channel c ("none": empty)
  sigClosed,      \* channel c has been closed
  notifying,      \* signal.Notify is in force for channel c
  signalsSent,    \* signals delivered to the process so far
  quitCalls,      \* Quit() calls made by the handler
  cmdFinished     \* the cmd's work ended by itself (timeout or runs drained)

\* the context-based App
VARIABLES
  ctxDone,        \* busObject.ctx is cancelled
  ctxCause,       \* context.Cause(busObject.ctx)
  running,        \* busObject.running
  runningWritten, \* some Apply call has stored true in busObject.running
  mu,             \* call holding busObject.mu (0: free)
  cpc,            \* position of each Apply call
  cerr,           \* the err variable of each Apply call
  cresult,        \* the *dbus.Error each Apply call returned
  cwpc,           \* position of the goroutine in App.Wait
  cwResult,       \* what App.Wait returned
  after,          \* the timer of time.After(timeout)
  cqpc,           \* position of the Quit call
  heldAtQuit,     \* history: calls holding busObject.mu when Quit() was called
  heldAtWaitReturn,\* history: calls holding busObject.mu when Wait() returned
  waitPath        \* history: the cases through which App.Wait returned

\* the proxy backends
VARIABLES
  params,         \* the arguments of the Apply call being served
  files,          \* content of each backend's configuration file
  glibInstalled,  \* glib-compile-schemas is found in PATH
  schemasDir,     \* what is at glibSchemasPath
  lastOp          \* history: what the last backend call did

\* the authorizer
VARIABLES
  creds,          \* reply of GetConnectionCredentials
  statFile,       \* content of proc/<pid>/stat
  polkit,         \* reply of polkit's CheckAuthorization
  authPc,         \* position of CheckSenderAllowed
  authErr,        \* the error CheckSenderAllowed returns
  startTime,      \* start time handed to polkit (<<>>: none)
  polkitCalls     \* CheckAuthorization calls made

mainVars == <<args, cmdOutcome, mpc, rc, waitCalled, hpc, sigBuf, sigClosed,
              notifying, signalsSent, quitCalls, cmdFinished>>
ctxVars == <<ctxDone, ctxCause, running, runningWritten, mu, cpc, cerr,
             cresult, cwpc, cwResult, after, cqpc, heldAtQuit,
             heldAtWaitReturn, waitPath>>
proxyVars == <<params, files, glibInstalled, schemasDir, lastOp>>
authVars == <<creds, statFile, polkit, authPc, authErr, startTime,
              polkitCalls>>

\* the variables of the Lifecycle and of the App built on it
coreVars == <<counter, startedClosed, quittedClosed, exitRequested, quitMu,
              appMu, errors, pc, err, result, authCount, applyCount, wpc,
              wbranch, timer, waitResult, appResult, qpc, panicked,
              beganAfterQuit, quitWhileHeld, quitBeforeStart, closeCalls,
              quitWhileQueued>>
\* the variables the Lifecycle and its App never touch
otherVars == <<mainVars, ctxVars, proxyVars, authVars>>

vars == <<coreVars, mainVars, ctxVars, proxyVars, authVars>>

lifecycleVars == <<counter, startedClosed, quittedClosed, exitRequested,
                   quitMu, appMu, errors>>
reqVars == <<pc, err, result, authCount, applyCount>>
waitVars == <<wpc, wbranch, timer, waitResult, appResult>>
histVars == <<beganAfterQuit, quitWhileHeld, quitBeforeStart, closeCalls,
              quitWhileQueued>>

\* ---- initial states of the components ------------------------------------
\* main(): run() is about to be called with arguments a on a cmd whose
\* Lifecycle will hand outcome o to Wait()
MainStart(a, o) ==
  /\ args = a
  /\ cmdOutcome = o
  /\ mpc = "start"
  /\ rc = -1
  /\ waitCalled = FALSE
  /\ hpc = "notStarted"
  /\ sigBuf = "none"
  /\ sigClosed = FALSE
  /\ notifying = FALSE
  /\ signalsSent = 0
  /\ quitCalls = 0
  /\ cmdFinished = FALSE

\* the command is not run
MainIdle == MainStart(<<>>, NilResult)

\* context.Canceled
Canceled == [run |-> 0, what |-> "context canceled"]
\* App.Wait has not returned
NotReturned == [run |-> 0, what |-> "pending"]

\* number of D-Bus Apply calls delivered to the context-based App
NumCalls == 2
Calls == 1..NumCalls

\* app.New(ctx, ...) of the context-based App: context.WithCancelCause on a
\* parent that is never cancelled, running false, mutex free
CtxInit ==
  /\ ctxDone = FALSE
  /\ ctxCause = NilErr
  /\ running = FALSE
  /\ runningWritten = FALSE
  /\ mu = 0
  /\ cpc = [c \in Calls |-> "idle"]
  /\ cerr = [c \in Calls |-> NilErr]
  /\ cresult = [c \in Calls |-> Pending]
  /\ cwpc = "idle"
  /\ cwResult = NotReturned
  /\ after = "unset"
  /\ cqpc = "idle"
  /\ heldAtQuit = {}
  /\ heldAtWaitReturn = {}
  /\ waitPath = "none"

\* the three backends of the proxy manager
Backends == {"env", "apt", "gsettings"}
\* a configuration file that does not exist
Absent == [exists |-> FALSE, content |-> <<>>]
\* no backend call has been made
NoOp == [backend |-> "none", tick |-> 0, had |-> FALSE, wrote |-> FALSE,
         removed |-> FALSE, glibRan |-> FALSE, glibFailed |-> FALSE,
         writeBack |-> FALSE, err |-> FALSE]

\* proxy.New on a system whose configuration files are f, with
\* glib-compile-schemas installed or not (g) and d at the schema path,
\* serving an Apply call with arguments p
ProxyStart(p, f, g, d) ==
  /\ params = p
  /\ files = f
  /\ glibInstalled = g
  /\ schemasDir = d
  /\ lastOp = NoOp

\* no Apply call reaches the backends
ProxyIdle ==
  ProxyStart([http |-> "", auto |-> ""], [b \in Backends |-> Absent], FALSE,
             "dir")

\* a D-Bus variant holding a uint32
Uint32(n) == [type |-> "uint32", val |-> n]
\* a D-Bus variant holding the string "NaN"
NaN == [type |-> "string", val |-> 0]

\* an error is the sequence of its messages, outermost first; nil is empty
NoErr == <<>>
\* no start time has been parsed
NoStartTime == <<>>

\* CheckSenderAllowed is about to be called; c, s and p are what the
\* credentials lookup, the stat file and polkit will answer
AuthStart(c, s, p) ==
  /\ creds = c
  /\ statFile = s
  /\ polkit = p
  /\ authPc = "start"
  /\ authErr = NoErr
  /\ startTime = NoStartTime
  /\ polkitCalls = 0

\* the authorizer is not called
AuthIdle ==
  AuthStart([lookupErr |-> FALSE, uid |-> Uint32(0), pid |-> Uint32(1)],
            [open |-> FALSE, readOk |-> FALSE, contents |-> <<>>],
            [callErr |-> FALSE, isAuthorized |-> FALSE])

\* lifecycle.New and app.New: nothing has run yet
CoreInit ==
  /\ counter = 0
  /\ startedClosed = FALSE
  /\ quittedClosed = FALSE
  /\ exitRequested = FALSE
  /\ quitMu = 0
  /\ appMu = 0
  /\ errors = <<>>
  /\ pc = [r \in Reqs |-> "idle"]
  /\ err = [r \in Reqs |-> NilErr]
  /\ result = [r \in Reqs |-> Pending]
  /\ authCount = [r \in Reqs |-> 0]
  /\ applyCount = [r \in Reqs |-> 0]
  /\ wpc = "idle"
  /\ wbranch = "none"
  /\ timer = "unset"
  /\ waitResult = NoResult
  /\ appResult = NoResult
  /\ qpc = [q \in Quitters |-> "idle"]
  /\ panicked = FALSE
  /\ beganAfterQuit = [r \in Reqs |-> FALSE]
  /\ quitWhileHeld = {}
  /\ quitBeforeStart = FALSE
  /\ closeCalls = [started |-> 0, quitted |-> 0]
  /\ quitWhileQueued = FALSE

\* the process of the Lifecycle-based App, the other components at rest
Init == CoreInit /\ MainIdle /\ CtxInit /\ ProxyIdle /\ AuthIdle

\* the process is alive
Running == ~panicked

\* runs that have entered Start() (the counter was incremented for them)
Entered == {r \in Reqs : pc[r] \notin {"idle", "start", "rejected"}}
\* runs between Start() returning and RunDone() being called
InSection == {r \in Reqs : pc[r] \in {"auth", "apply", "runDone"}}
\* runs whose RunDone() has not yet decremented the counter
Outstanding == {r \in Reqs : pc[r] \in {"firstRun", "lock", "auth", "apply",
                                        "runDone", "decrement"}}
SomeQuitReturned == \E q \in Quitters : qpc[q] = "done"
SomeQuitCalled == \E q \in Quitters : qpc[q] # "idle"

\* ---- Lifecycle ----------------------------------------------------------

\* mutant: the flag is never seen set
QuitRequestedNever == FALSE

\* Lifecycle.QuitRequested: the flag, read under quitMu.RLock
QuitRequested == exitRequested

\* mutant: the run is counted twice
incrementTwice == counter + 2

\* Lifecycle.increment: counter.Add(1)
increment == counter + 1

\* mutant: the run is never taken off the counter
decrementNever == counter

\* Lifecycle.decrement: counter.Done()
decrement == counter - 1

\* mutant: the gate is never waited for
GateAlwaysFree == TRUE

\* the guard of appMu.Lock(): the mutex is free
GateFree == appMu = 0

\* mutant: the timeout indication is passed on as an error
AppWaitRaw(res) == res

\* App.Wait: the timeout indication is turned into success
AppWait(res) == IF res = ErrTimeoutReached THEN NilResult ELSE res

\* ---- proxyManagerBus.Apply, one call per r ------------------------------

\* mutant: a rejected request is recorded like a run
ApplyQuitCheckRecords(r) ==
  /\ Running
  /\ pc[r] = "idle"
  /\ quitMu = 0
  /\ beganAfterQuit' = [beganAfterQuit EXCEPT ![r] = SomeQuitReturned]
  /\ IF QuitRequested
       THEN /\ pc' = [pc EXCEPT ![r] = "rejected"]
            /\ result' = [result EXCEPT ![r] = MakeFailedError(ExitingErr)]
            /\ errors' = Append(errors, ExitingErr)
       ELSE /\ pc' = [pc EXCEPT ![r] = "start"]
            /\ UNCHANGED <<result, errors>>
  /\ UNCHANGED <<counter, startedClosed, quittedClosed, exitRequested, quitMu,
                 appMu, err, authCount, applyCount, waitVars, qpc,
                 panicked, quitWhileHeld, quitBeforeStart, closeCalls,
                 quitWhileQueued>>
  /\ UNCHANGED otherVars

\* mutant: the quit flag is read under the execution gate
ApplyQuitCheckGated(r) ==
  /\ Running
  /\ pc[r] = "idle"
  /\ quitMu = 0
  /\ appMu = 0
  /\ beganAfterQuit' = [beganAfterQuit EXCEPT ![r] = SomeQuitReturned]
  /\ IF QuitRequested
       THEN /\ pc' = [pc EXCEPT ![r] = "rejected"]
            /\ result' = [result EXCEPT ![r] = MakeFailedError(ExitingErr)]
       ELSE /\ pc' = [pc EXCEPT ![r] = "start"]
            /\ UNCHANGED result
  /\ UNCHANGED <<lifecycleVars, err, authCount, applyCount, waitVars, qpc,
                 panicked, quitWhileHeld, quitBeforeStart, closeCalls,
                 quitWhileQueued>>
  /\ UNCHANGED otherVars

\* Apply begins: the quit check. RLock waits while Quit holds quitMu.
ApplyQuitCheck(r) ==
  /\ Running
  /\ pc[r] = "idle"
  /\ quitMu = 0
  /\ beganAfterQuit' = [beganAfterQuit EXCEPT ![r] = SomeQuitReturned]
  /\ IF QuitRequested
       THEN /\ pc' = [pc EXCEPT ![r] = "rejected"]
            /\ result' = [result EXCEPT ![r] = MakeFailedError(ExitingErr)]
       ELSE /\ pc' = [pc EXCEPT ![r] = "start"]
            /\ UNCHANGED result
  /\ UNCHANGED <<lifecycleVars, err, authCount, applyCount, waitVars, qpc,
                 panicked, quitWhileHeld, quitBeforeStart, closeCalls,
                 quitWhileQueued>>
  /\ UNCHANGED otherVars

\* mutant: Start() fires the started signal first and counts the run later
StartIncrementSignalsFirst(r) ==
  /\ Running
  /\ pc[r] = "start"
  /\ IF startedClosed
       THEN counter' = increment /\ UNCHANGED startedClosed
       ELSE startedClosed' = TRUE /\ UNCHANGED counter
  /\ pc' = [pc EXCEPT ![r] = IF startedClosed THEN "firstRun" ELSE "start"]
  /\ UNCHANGED <<quittedClosed, exitRequested, quitMu, appMu,
                 errors, err, result, authCount, applyCount, waitVars, qpc,
                 panicked, histVars>>
  /\ UNCHANGED otherVars

\* Start, first statement: l.increment()
StartIncrement(r) ==
  /\ Running
  /\ pc[r] = "start"
  /\ counter' = increment
  /\ pc' = [pc EXCEPT ![r] = "firstRun"]
  /\ UNCHANGED <<startedClosed, quittedClosed, exitRequested, quitMu, appMu,
                 errors, err, result, authCount, applyCount, waitVars, qpc,
                 panicked, histVars>>
  /\ UNCHANGED otherVars

\* mutant: the close is not guarded by the Once
FirstRunAlways == TRUE

\* sync.Once: firstRun.Do runs its function only if it has not run before;
\* that function is the only place that closes started
FirstRunDue == ~startedClosed

\* Start, second statement: firstRun.Do(close(started)); closing a closed
\* channel panics
StartFirstRun(r) ==
  /\ Running
  /\ pc[r] = "firstRun"
  /\ IF FirstRunDue
       THEN /\ closeCalls' = [closeCalls EXCEPT !.started = @ + 1]
            /\ IF startedClosed
                 THEN /\ panicked' = TRUE
                      /\ UNCHANGED startedClosed
                 ELSE /\ startedClosed' = TRUE
                      /\ UNCHANGED panicked
       ELSE UNCHANGED <<closeCalls, startedClosed, panicked>>
  /\ pc' = [pc EXCEPT ![r] = "lock"]
  /\ UNCHANGED <<counter, quittedClosed, exitRequested, quitMu, appMu,
                 errors, err, result, authCount, applyCount, waitVars, qpc,
                 beganAfterQuit, quitWhileHeld, quitBeforeStart,
                 quitWhileQueued>>
  /\ UNCHANGED otherVars

\* Start, last statement: appMu.Lock(); Start returns holding the gate
StartLock(r) ==
  /\ Running
  /\ pc[r] = "lock"
  /\ GateFree
  /\ appMu' = r
  /\ pc' = [pc EXCEPT ![r] = "auth"]
  /\ UNCHANGED <<counter, startedClosed, quittedClosed, exitRequested, quitMu,
                 errors, err, result, authCount, applyCount, waitVars, qpc,
                 panicked, histVars>>
  /\ UNCHANGED otherVars

\* mutant: a denial does not return, the proxy is applied all the same
ApplyAuthorizeNoReturn(r) ==
  /\ Running
  /\ pc[r] = "auth"
  /\ authCount' = [authCount EXCEPT ![r] = @ + 1]
  /\ \E allowed \in BOOLEAN :
       /\ pc' = [pc EXCEPT ![r] = "apply"]
       /\ err' = [err EXCEPT ![r] = IF allowed THEN NilErr ELSE AuthErr(r)]
       /\ UNCHANGED result
  /\ UNCHANGED <<lifecycleVars, applyCount, waitVars, qpc, panicked,
                 histVars>>
  /\ UNCHANGED otherVars

\* authorizer.IsSenderAllowed: the collaborator allows or denies
ApplyAuthorize(r) ==
  /\ Running
  /\ pc[r] = "auth"
  /\ authCount' = [authCount EXCEPT ![r] = @ + 1]
  /\ \E allowed \in BOOLEAN :
       IF allowed
         THEN /\ pc' = [pc EXCEPT ![r] = "apply"]
              /\ err' = [err EXCEPT ![r] = NilErr]
              /\ UNCHANGED result
         ELSE /\ pc' = [pc EXCEPT ![r] = "runDone"]
              /\ err' = [err EXCEPT ![r] = AuthErr(r)]
              /\ result' = [result EXCEPT ![r] = MakeFailedError(err'[r])]
  /\ UNCHANGED <<lifecycleVars, applyCount, waitVars, qpc, panicked,
                 histVars>>
  /\ UNCHANGED otherVars

\* mutant: the apply error is assigned to a shadowing err, RunDone gets nil
ApplyProxyShadowed(r) ==
  /\ Running
  /\ pc[r] = "apply"
  /\ applyCount' = [applyCount EXCEPT ![r] = @ + 1]
  /\ \E ok \in BOOLEAN :
       result' = [result EXCEPT ![r] = IF ok THEN NoDbusError
                                             ELSE MakeFailedError(ApplyErr(r))]
  /\ pc' = [pc EXCEPT ![r] = "runDone"]
  /\ UNCHANGED <<lifecycleVars, err, authCount, waitVars, qpc, panicked,
                 histVars>>
  /\ UNCHANGED otherVars

\* proxy.Apply: the collaborator succeeds or fails
ApplyProxy(r) ==
  /\ Running
  /\ pc[r] = "apply"
  /\ applyCount' = [applyCount EXCEPT ![r] = @ + 1]
  /\ \E ok \in BOOLEAN :
       /\ err' = [err EXCEPT ![r] = IF ok THEN NilErr ELSE ApplyErr(r)]
       /\ result' = [result EXCEPT ![r] = IF ok THEN NoDbusError
                                                ELSE MakeFailedError(err'[r])]
  /\ pc' = [pc EXCEPT ![r] = "runDone"]
  /\ UNCHANGED <<lifecycleVars, authCount, waitVars, qpc, panicked,
                 histVars>>
  /\ UNCHANGED otherVars

\* mutant: the error is not recorded before the counter is decremented
RunDoneAppendLate(r) ==
  /\ Running
  /\ pc[r] = "runDone"
  /\ pc' = [pc EXCEPT ![r] = "decrement"]
  /\ UNCHANGED <<lifecycleVars, err, result, authCount, applyCount, waitVars,
                 qpc, panicked, histVars>>
  /\ UNCHANGED otherVars

\* mutant: RunDone is not deferred, a failed run returns without it
RunDoneAppendOnSuccess(r) ==
  /\ Running
  /\ pc[r] = "runDone"
  /\ IF err[r] = NilErr
       THEN /\ errors' = Append(errors, err[r])
            /\ pc' = [pc EXCEPT ![r] = "decrement"]
       ELSE /\ pc' = [pc EXCEPT ![r] = "done"]
            /\ UNCHANGED errors
  /\ UNCHANGED <<counter, startedClosed, quittedClosed, exitRequested, quitMu,
                 appMu, err, result, authCount, applyCount, waitVars, qpc,
                 panicked, histVars>>
  /\ UNCHANGED otherVars

\* mutant: RunDone records only the runs that failed
RunDoneAppendSkipsNil(r) ==
  /\ Running
  /\ pc[r] = "runDone"
  /\ errors' = IF err[r] = NilErr THEN errors ELSE Append(errors, err[r])
  /\ pc' = [pc EXCEPT ![r] = "decrement"]
  /\ UNCHANGED <<counter, startedClosed, quittedClosed, exitRequested, quitMu,
                 appMu, err, result, authCount, applyCount, waitVars, qpc,
                 panicked, histVars>>
  /\ UNCHANGED otherVars

\* RunDone, first statement: l.errors = append(l.errors, err)
RunDoneAppend(r) ==
  /\ Running
  /\ pc[r] = "runDone"
  /\ errors' = Append(errors, err[r])
  /\ pc' = [pc EXCEPT ![r] = "decrement"]
  /\ UNCHANGED <<counter, startedClosed, quittedClosed, exitRequested, quitMu,
                 appMu, err, result, authCount, applyCount, waitVars, qpc,
                 panicked, histVars>>
  /\ UNCHANGED otherVars

\* RunDone, second statement: l.decrement()
RunDoneDecrement(r) ==
  /\ Running
  /\ pc[r] = "decrement"
  /\ counter' = decrement
  /\ pc' = [pc EXCEPT ![r] = "unlock"]
  /\ UNCHANGED <<startedClosed, quittedClosed, exitRequested, quitMu, appMu,
                 errors, err, result, authCount, applyCount, waitVars, qpc,
                 panicked, histVars>>
  /\ UNCHANGED otherVars

\* mutant: RunDone returns without unlocking the gate
RunDoneUnlockLeaks(r) ==
  /\ Running
  /\ pc[r] = "unlock"
  /\ pc' = [pc EXCEPT ![r] = "done"]
  /\ UNCHANGED <<lifecycleVars, err, result, authCount, applyCount, waitVars,
                 qpc, panicked, histVars>>
  /\ UNCHANGED otherVars

\* mutant: finishing a run re-arms the lifecycle and clears the quit flag
RunDoneUnlockResets(r) ==
  /\ Running
  /\ pc[r] = "unlock"
  /\ appMu' = 0
  /\ exitRequested' = FALSE
  /\ pc' = [pc EXCEPT ![r] = "done"]
  /\ UNCHANGED <<counter, startedClosed, quittedClosed, quitMu,
                 errors, err, result, authCount, applyCount, waitVars, qpc,
                 panicked, histVars>>
  /\ UNCHANGED otherVars

\* RunDone, last statement: appMu.Unlock(); Apply then returns to its caller
RunDoneUnlock(r) ==
  /\ Running
  /\ pc[r] = "unlock"
  /\ appMu' = 0
  /\ pc' = [pc EXCEPT ![r] = "done"]
  /\ UNCHANGED <<counter, startedClosed, quittedClosed, exitRequested, quitMu,
                 errors, err, result, authCount, applyCount, waitVars, qpc,
                 panicked, histVars>>
  /\ UNCHANGED otherVars

\* ---- App.Wait -> Lifecycle.Wait -----------------------------------------

\* Wait is called: time.NewTimer(l.timeout)
WaitBegin ==
  /\ Running
  /\ wpc = "idle"
  /\ wpc' = "select"
  /\ timer' = "running"
  /\ UNCHANGED <<lifecycleVars, reqVars, wbranch, waitResult, appResult, qpc,
                 panicked, histVars>>
  /\ UNCHANGED otherVars

\* the idle timeout elapses: a value is sent on timer.C
TimerFire ==
  /\ Running
  /\ timer = "running"
  /\ timer' = "fired"
  /\ UNCHANGED <<lifecycleVars, reqVars, wpc, wbranch, waitResult, appResult,
                 qpc, panicked, histVars>>
  /\ UNCHANGED otherVars

\* The select of Wait is evaluated in one step and takes any case that is
\* ready at that moment (Go gives no priority among ready cases). A goroutine
\* parked in the select and woken by the first event is the behaviour in
\* which the step directly follows that event.
\* select, case <-l.started
WaitSelectStarted ==
  /\ Running
  /\ wpc = "select"
  /\ startedClosed
  /\ wpc' = "counterWait"
  /\ wbranch' = "started"
  /\ UNCHANGED <<lifecycleVars, reqVars, timer, waitResult, appResult, qpc,
                 panicked, histVars>>
  /\ UNCHANGED otherVars

\* mutant: the quitted case returns the timeout indication
WaitSelectQuittedSwapped ==
  /\ Running
  /\ wpc = "select"
  /\ quittedClosed
  /\ wpc' = "returned"
  /\ wbranch' = "quitted"
  /\ waitResult' = ErrTimeoutReached
  /\ appResult' = AppWait(waitResult')
  /\ UNCHANGED <<lifecycleVars, reqVars, timer, qpc, panicked, histVars>>
  /\ UNCHANGED otherVars

\* select, case <-l.quitted: return nil
WaitSelectQuitted ==
  /\ Running
  /\ wpc = "select"
  /\ quittedClosed
  /\ wpc' = "returned"
  /\ wbranch' = "quitted"
  /\ waitResult' = NilResult
  /\ appResult' = AppWait(waitResult')
  /\ UNCHANGED <<lifecycleVars, reqVars, timer, qpc, panicked, histVars>>
  /\ UNCHANGED otherVars

\* mutant: the timer case re-arms the timer and goes round the loop again
WaitSelectTimeoutLoops ==
  /\ Running
  /\ wpc = "select"
  /\ timer = "fired"
  /\ timer' = "running"
  /\ UNCHANGED <<lifecycleVars, reqVars, wpc, wbranch, waitResult, appResult,
                 qpc, panicked, histVars>>
  /\ UNCHANGED otherVars

\* select, case <-timer.C: return ErrTimeoutReached
WaitSelectTimeout ==
  /\ Running
  /\ wpc = "select"
  /\ timer = "fired"
  /\ wpc' = "returned"
  /\ wbranch' = "timeout"
  /\ waitResult' = ErrTimeoutReached
  /\ appResult' = AppWait(waitResult')
  /\ UNCHANGED <<lifecycleVars, reqVars, timer, qpc, panicked, histVars>>
  /\ UNCHANGED otherVars

\* mutant: counter.Wait() returns whatever the counter is
WaitCounterNoWait ==
  /\ Running
  /\ wpc = "counterWait"
  /\ wpc' = "join"
  /\ UNCHANGED <<lifecycleVars, reqVars, wbranch, timer, waitResult,
                 appResult, qpc, panicked, histVars>>
  /\ UNCHANGED otherVars

\* l.counter.Wait() returns: the counter is seen at zero
WaitCounter ==
  /\ Running
  /\ wpc = "counterWait"
  /\ counter = 0
  /\ wpc' = "join"
  /\ UNCHANGED <<lifecycleVars, reqVars, wbranch, timer, waitResult,
                 appResult, qpc, panicked, histVars>>
  /\ UNCHANGED otherVars

\* return errors.Join(l.errors...)
WaitJoin ==
  /\ Running
  /\ wpc = "join"
  /\ wpc' = "returned"
  /\ waitResult' = Join(errors)
  /\ appResult' = AppWait(waitResult')
  /\ UNCHANGED <<lifecycleVars, reqVars, wbranch, timer, qpc, panicked,
                 histVars>>
  /\ UNCHANGED otherVars

\* ---- App.Quit -> Lifecycle.Quit, one call per q -------------------------

\* quitMu.Lock(); close(l.quitted): closing a closed channel panics
QuitLockClose(q) ==
  /\ Running
  /\ qpc[q] = "idle"
  /\ quitMu = 0
  /\ quitMu' = q
  /\ qpc' = [qpc EXCEPT ![q] = "closed"]
  /\ closeCalls' = [closeCalls EXCEPT !.quitted = @ + 1]
  /\ IF quittedClosed
       THEN /\ panicked' = TRUE
            /\ UNCHANGED quittedClosed
       ELSE /\ quittedClosed' = TRUE
            /\ UNCHANGED panicked
  /\ quitWhileHeld' = IF appMu # 0 /\ wpc # "returned"
                        THEN quitWhileHeld \cup {appMu}
                        ELSE quitWhileHeld
  /\ quitBeforeStart' = (quitBeforeStart \/ (Entered = {} /\ wpc # "returned"))
  /\ quitWhileQueued' = \/ quitWhileQueued
                         \/ /\ wpc # "returned"
                            /\ appMu # 0
                            /\ \E r \in Reqs : pc[r] = "lock"
  /\ UNCHANGED <<counter, startedClosed, exitRequested, appMu, errors,
                 reqVars, waitVars, beganAfterQuit>>
  /\ UNCHANGED otherVars

\* l.exitRequested = true; deferred quitMu.Unlock(); Quit returns
QuitSetUnlock(q) ==
  /\ Running
  /\ qpc[q] = "closed"
  /\ exitRequested' = TRUE
  /\ quitMu' = 0
  /\ qpc' = [qpc EXCEPT ![q] = "done"]
  /\ UNCHANGED <<counter, startedClosed, quittedClosed, appMu, errors,
                 reqVars, waitVars, panicked, histVars>>
  /\ UNCHANGED otherVars

\* ---- specification ------------------------------------------------------

Next ==
  \/ \E r \in Reqs : ApplyQuitCheck(r)
  \/ \E r \in Reqs : StartIncrement(r)
  \/ \E r \in Reqs : StartFirstRun(r)
  \/ \E r \in Reqs : StartLock(r)
  \/ \E r \in Reqs : ApplyAuthorize(r)
  \/ \E r \in Reqs : ApplyProxy(r)
  \/ \E r \in Reqs : RunDoneAppend(r)
  \/ \E r \in Reqs : RunDoneDecrement(r)
  \/ \E r \in Reqs : RunDoneUnlock(r)
  \/ WaitBegin
  \/ TimerFire
  \/ WaitSelectStarted
  \/ WaitSelectQuitted
  \/ WaitSelectTimeout
  \/ WaitCounter
  \/ WaitJoin
  \/ \E q \in Quitters : QuitLockClose(q)
  \/ \E q \in Quitters : QuitSetUnlock(q)

Spec == Init /\ [][Next]_vars

\* the steps of an Apply call once the D-Bus library has spawned its goroutine
RunSteps(r) ==
  \/ StartIncrement(r)
  \/ StartFirstRun(r)
  \/ StartLock(r)
  \/ ApplyAuthorize(r)
  \/ ApplyProxy(r)
  \/ RunDoneAppend(r)
  \/ RunDoneDecrement(r)
  \/ RunDoneUnlock(r)

\* the steps of the goroutine that calls Wait
WaitSteps ==
  \/ WaitBegin
  \/ WaitSelectStarted
  \/ WaitSelectQuitted
  \/ WaitSelectTimeout
  \/ WaitCounter
  \/ WaitJoin

\* The Go scheduler runs every runnable goroutine and a running timer
\* expires. Nothing obliges a client to call Apply or a signal to arrive.
FairSpec ==
  /\ Spec
  /\ WF_vars(WaitSteps)
  /\ WF_vars(TimerFire)
  /\ \A r \in Reqs : WF_vars(RunSteps(r))
  /\ \A q \in Quitters : WF_vars(QuitSetUnlock(q))

\* ---- properties ---------------------------------------------------------

Range(f) == {f[i] : i \in DOMAIN f}
AllDone == \A r \in Reqs : pc[r] = "done"
\* the errors of the runs whose RunDone() has taken them off the counter
Reported(e) == e.run # 0 /\ pc[e.run] \in {"unlock", "done"}
ReportedErrors == SelectSeq(errors, Reported)

\* C1: at most one Apply call is between Start() returning and RunDone()
\* being called, whatever the interleaving.
C1_MutualExclusion == Cardinality(InSection) <= 1

\* one run is inside its protected section while another waits at the gate
C1_Witness ==
  \E r1, r2 \in Reqs : r1 # r2 /\ pc[r1] \in {"auth", "apply"} /\ pc[r2] = "lock"

\* C2: the counter is never negative; it counts the runs that entered
\* Start() and whose RunDone() has not yet decremented it (runs queued at
\* the gate included), so it is zero exactly when every entered run has
\* reported completion.
C2_CounterOutstanding ==
  /\ counter >= 0
  /\ counter = Cardinality(Outstanding)
  /\ (counter = 0 <=> \A r \in Entered : pc[r] \in {"unlock", "done"})

\* every run entered Start() and reported completion: the counter is back at 0
C2_Witness == Entered = Reqs /\ AllDone /\ counter = 0

\* C3 (as claimed): when Wait() returns through the started case the counter
\* is zero and the value is the join of the errors of the completed RunDone()
\* calls.
C3_WaitReturnsDrained ==
  [][(wpc = "join" /\ wpc' = "returned")
       => (counter = 0 /\ waitResult' = Join(ReportedErrors))]_vars

\* C4 (as claimed): the error of every run that called Start() and finished
\* is part of what Wait() returned.
C4_NoOutcomeMissing ==
  wpc = "returned" =>
    \A r \in Reqs : (pc[r] = "done" /\ err[r] # NilErr)
                      => err[r] \in Range(waitResult.errs)

\* C5 (as claimed): if Quit() was called while a run held the gate and Wait()
\* had not returned, Wait() returns only after that run's RunDone() and
\* with that run's error.
C5_QuitWaitsForRun ==
  wpc = "returned" =>
    \A r \in quitWhileHeld :
      /\ pc[r] \in {"decrement", "unlock", "done"}
      /\ err[r] # NilErr => err[r] \in Range(waitResult.errs)

C8_IdleTimeout ==
  <>(\/ Entered # {}
     \/ SomeQuitCalled
     \/ (wpc = "returned" /\ waitResult = ErrTimeoutReached
                          /\ appResult = NilResult))

\* nothing started, nobody quit, and Wait() returned the timeout indication
C8_Witness ==
  /\ Entered = {}
  /\ ~SomeQuitCalled
  /\ waitResult = ErrTimeoutReached
  /\ appResult = NilResult

\* C9 (as claimed): once the started signal has fired, Wait() does not
\* resolve with the timeout indication.
C9_NoTimeoutOnceStarted ==
  [][(wpc = "select" /\ startedClosed) => waitResult' # ErrTimeoutReached]_vars

\* C10: without Quit() and with every caller authorized, once all N Apply
\* calls have returned the proxy was applied exactly once per call and the
\* counter is zero.
C10_AllApplied ==
  (/\ ~SomeQuitCalled
   /\ AllDone
   /\ \A r \in Reqs : err[r] # AuthErr(r))
    => /\ \A r \in Reqs : applyCount[r] = 1
       /\ counter = 0

\* all N calls ran concurrently to completion, authorized, with no Quit()
C10_Witness ==
  /\ ~SomeQuitCalled
  /\ AllDone
  /\ \A r \in Reqs : authCount[r] = 1 /\ applyCount[r] = 1

\* requests that passed the quit check
Accepted == {r \in Reqs : pc[r] \notin {"idle", "rejected"}}
\* runs whose RunDone() has appended its entry
Appended == {r \in Reqs : pc[r] \in {"decrement", "unlock", "done"}}
\* runs that have gone through firstRun.Do
PastFirstRun == {r \in Reqs : pc[r] \in {"lock", "auth", "apply", "runDone",
                                          "decrement", "unlock", "done"}}
\* the calls of Quit() have acted on the state in this step
QuitStep == \E q \in Quitters : qpc'[q] # qpc[q]

\* C11 (as claimed): when Quit() was called with runs queued at the gate,
\* requests issued after Quit() apply nothing, no run applies twice, and at
\* the moment Wait() returns every accepted request has applied the proxy
\* once (unless its authorization was denied).
C11_QueuedRunsApplied ==
  [][(wpc # "returned" /\ wpc' = "returned" /\ quitWhileQueued)
       => \A r \in Reqs :
            /\ beganAfterQuit[r] => applyCount[r] = 0
            /\ applyCount[r] <= 1
            /\ r \in Accepted => /\ r \in Appended
                                 /\ err[r] # AuthErr(r) => applyCount[r] = 1]_vars

\* C12 (as claimed): once all requests have returned, what Wait() returned
\* has one entry per failed run, and is nil if none failed.
C12_OneEntryPerFailure ==
  (wpc = "returned" /\ AllDone) =>
    LET failed == {r \in Reqs : err[r] # NilErr}
    IN  /\ Len(appResult.errs) = Cardinality(failed)
        /\ failed = {} => appResult = NilResult

\* C13: for each accepted request the error returned to the D-Bus caller
\* and the error handed to RunDone() are the same: none for both on
\* success, the authorization error on denial, the apply error on failure.
C13_SameErrorBothWays ==
  \A r \in Appended :
    /\ IF err[r] = NilErr
         THEN /\ result[r] = NoDbusError
              /\ \A i \in DOMAIN errors : errors[i].run # r
         ELSE /\ result[r] = MakeFailedError(err[r])
              /\ Cardinality({i \in DOMAIN errors : errors[i] = err[r]}) = 1
    /\ result[r] = NoDbusError => applyCount[r] = 1
    /\ applyCount[r] = 0 <=> result[r] = MakeFailedError(AuthErr(r))
    /\ result[r].body.what \in {"nil", "auth", "apply"}

\* one run denied, one failed in apply: each reported the same error twice
C13_Witness ==
  \E r1, r2 \in Reqs :
    /\ pc[r1] = "done" /\ result[r1] = MakeFailedError(AuthErr(r1))
    /\ pc[r2] = "done" /\ result[r2] = MakeFailedError(ApplyErr(r2))
    /\ Len(SelectSeq(errors, IsNonNil)) = 2

\* C14: an accepted request checks authorization exactly once and applies
\* at most once: never after a denial, exactly once otherwise.
C14_OneAuthAtMostOneApply ==
  \A r \in Reqs :
    /\ authCount[r] <= 1 /\ applyCount[r] <= 1
    /\ r \notin Accepted => authCount[r] = 0 /\ applyCount[r] = 0
    /\ (pc[r] \in {"apply", "runDone"} \/ r \in Appended) => authCount[r] = 1
    /\ err[r] = AuthErr(r) => applyCount[r] = 0 /\ pc[r] # "apply"
    /\ ((pc[r] = "runDone" \/ r \in Appended) /\ err[r] # AuthErr(r))
         => applyCount[r] = 1

\* one run was denied and did not apply, another was allowed and applied
C14_Witness ==
  \E r1, r2 \in Reqs :
    /\ pc[r1] = "done" /\ authCount[r1] = 1 /\ applyCount[r1] = 0
    /\ pc[r2] = "done" /\ authCount[r2] = 1 /\ applyCount[r2] = 1

\* C15: every exit path of an accepted request (denied, apply failed,
\* success) goes through RunDone() exactly once: a returned request has
\* released the gate, has been taken off the counter and has one entry in
\* the error collection.
C15_RunDoneOnEveryPath ==
  /\ \A r \in Reqs : pc[r] = "done" => appMu # r /\ r \notin Outstanding
  /\ Len(errors) = Cardinality(Appended)
  /\ counter = Cardinality(Outstanding)
  /\ appMu = 0 <=> \A r \in Reqs : pc[r] \notin {"auth", "apply", "runDone",
                                                  "decrement", "unlock"}

\* every request returned, one with an error and one without
C15_Witness ==
  /\ AllDone
  /\ \E r \in Reqs : err[r] # NilErr
  /\ \E r \in Reqs : err[r] = NilErr
  /\ appMu = 0
  /\ counter = 0

\* C16 (as claimed): a second Quit() completes normally, the flag stays
\* true and quitted is closed at most once.
C16_QuitIdempotent ==
  /\ ~panicked
  /\ closeCalls.quitted <= 1
  /\ SomeQuitReturned => exitRequested

\* C17: once the quit flag is true it stays true, whatever Start(),
\* RunDone(), Wait() or Quit() do afterwards.
C17_QuitFlagMonotonic == [][exitRequested => exitRequested']_vars

\* the flag is set, and since then a request was rejected, a run that had
\* passed the check completed and Wait() returned
C17_Witness ==
  /\ exitRequested
  /\ \E r \in Reqs : pc[r] = "rejected"
  /\ \E r \in Reqs : pc[r] = "done"
  /\ wpc = "returned"

\* C18: started is closed exactly once, by the first Start() that reaches
\* firstRun.Do; no later or concurrent Start() closes it again.
C18_StartedFiredOnce ==
  /\ closeCalls.started <= 1
  /\ startedClosed <=> closeCalls.started = 1
  /\ startedClosed <=> PastFirstRun # {}

\* every request went through firstRun.Do and started was closed once
C18_Witness ==
  /\ PastFirstRun = Reqs
  /\ closeCalls.started = 1

\* C19 (as claimed): a call of Quit() changes only the quit flag and the
\* quitted signal; the counter, the error collection, the gate, the runs and
\* the process itself are left as they were.
C19_QuitFrame ==
  [][QuitStep => UNCHANGED <<counter, errors, appMu, startedClosed, reqVars,
                             waitVars, panicked>>]_vars

\* C20: the quit check never waits for the execution gate: while a run
\* holds the gate a new Apply call can read the flag, and once the flag is
\* set it is rejected there and then.
C20_QuitCheckIgnoresGate ==
  \A r \in Reqs :
    (Running /\ appMu # 0 /\ quitMu = 0 /\ pc[r] = "idle")
      => /\ ENABLED ApplyQuitCheck(r)
         /\ exitRequested => ENABLED (ApplyQuitCheck(r) /\ pc'[r] = "rejected")

\* a request was rejected while another run still held the gate
C20_Witness ==
  \E r1, r2 \in Reqs :
    /\ pc[r1] = "rejected"
    /\ appMu = r2
    /\ pc[r2] \in {"auth", "apply"}

\* C22: while the process runs, a Start() waiting at the gate proceeds
\* exactly when the gate is free (it is blocked while another run holds it
\* and is not left waiting once the holder has released it), and since every
\* holder goes on to RunDone(), every Start() eventually returns holding the
\* gate.
C22_StartEventuallyReturns ==
  /\ [](\A r \in Reqs :
          (Running /\ pc[r] = "lock") => (ENABLED StartLock(r) <=> appMu = 0))
  /\ \A r \in Reqs : (pc[r] = "lock") ~> (appMu = r \/ panicked)

\* a second Start() got the gate after it had waited for the first run
C22_Witness ==
  \E r1, r2 \in Reqs :
    /\ pc[r1] = "done"
    /\ appMu = r2
    /\ pc[r2] = "auth"
    /\ errors # <<>>

\* C23: a request rejected at the quit check leaves the counter, the error
\* collection, the gate and both signals as they were, and the rejection
\* error is never in the error collection nor in what Wait() returns.
C23_RejectionLeavesNoTrace ==
  [][/\ \A r \in Reqs : (pc[r] = "idle" /\ pc'[r] = "rejected")
                          => UNCHANGED <<lifecycleVars, waitVars>>
     /\ \A i \in DOMAIN errors' : errors'[i] # ExitingErr
     /\ \A i \in DOMAIN waitResult'.errs : waitResult'.errs[i] # ExitingErr]_vars

\* a request was rejected, a run failed, and Wait() returned the aggregate
C23_Witness ==
  /\ \E r \in Reqs : result[r] = MakeFailedError(ExitingErr)
  /\ wpc = "returned"
  /\ waitResult.kind = "joined"

\* C30: RunDone() records the error before it decrements, so whenever the
\* counter is zero every run that entered Start() has its entry in the
\* error collection, and a Wait() that has seen the counter at zero reads them.
C30_AppendBeforeDecrement ==
  /\ counter = 0 => /\ Len(errors) = Cardinality(Entered)
                    /\ \A r \in Entered : err[r] # NilErr
                                            => err[r] \in Range(errors)
  /\ Len(errors) >= Cardinality({r \in Reqs : pc[r] \in {"unlock", "done"}})

\* Wait() has seen the counter at zero and is about to join a recorded error
C30_Witness ==
  /\ wpc = "join"
  /\ counter = 0
  /\ Entered # {}
  /\ \E r \in Entered : err[r] # NilErr

\* ---- the command: run(), parseFlags() and the signal handler -------------
\* longest command line
MaxArgs == 2
\* signals sent to the process while it listens for them
MaxSignals == 2

\* a command-line token: name preceded by one or two dashes, or a plain
\* argument (no dash)
Token(d, n) == [dashes |-> d, name |-> n]
Tokens ==
  {Token(1, "d"), Token(2, "debug"), Token(1, "v"), Token(2, "version"),
   Token(1, "h"), Token(2, "help"), Token(1, "bad-opt"), Token(2, "bad-opt"),
   Token(0, "bad-arg")}
ArgLists == UNION {[1..n -> Tokens] : n \in 0..MaxArgs}

\* the flags parseFlags defines, and the variable each one sets
FlagVar ==
  [debug |-> "debug", d |-> "debug", version |-> "version", v |-> "version",
   help |-> "help", h |-> "help"]

\* the signals run() asks to be notified of
Signals == {"SIGHUP", "SIGINT", "SIGTERM"}

\* what the Lifecycle of the cmd may hand to App.Wait
CmdOutcomes == {NilResult, ErrTimeoutReached, Join(<<AuthErr(1)>>)}

\* errors.New("usage error")
UsageErr == [run |-> 0, what |-> "usage error"]

\* flag.FlagSet.Parse: sets the variable of every defined flag up to the
\* first plain argument (the rest is left in Args()) or the first
\* undefined flag (an error)
RECURSIVE Parse(_, _)
Parse(as, st) ==
  IF as = <<>> THEN st
  ELSE LET t == Head(as) IN
       IF t.dashes = 0 THEN [st EXCEPT !.rest = as]
       ELSE IF t.name \notin DOMAIN FlagVar
         THEN [st EXCEPT !.parseErr = TRUE, !.rest = Tail(as)]
         ELSE Parse(Tail(as), [st EXCEPT ![FlagVar[t.name]] = TRUE])

\* the flag variables before parsing
NoFlags ==
  [debug |-> FALSE, version |-> FALSE, help |-> FALSE, parseErr |-> FALSE,
   rest |-> <<>>]

\* fSet.Usage: the closure assigns the named results of parseFlags
Usage == [printedUsage |-> TRUE, err |-> UsageErr]

\* mutant: the help branch returns the named results as Usage() left them
parseFlagsBareReturn(as) ==
  LET st == Parse(as, NoFlags) IN
  IF Len(st.rest) > 0 \/ st.parseErr
    THEN [Usage EXCEPT !.printedUsage = TRUE, !.err = UsageErr]
  ELSE IF st.version THEN [printedUsage |-> TRUE, err |-> NilErr]
  ELSE IF st.help THEN Usage
  ELSE [printedUsage |-> FALSE, err |-> NilErr]

\* parseFlags: (printedUsage, err)
parseFlags(as) ==
  LET st == Parse(as, NoFlags) IN
  IF Len(st.rest) > 0 \/ st.parseErr
    THEN [Usage EXCEPT !.printedUsage = TRUE, !.err = UsageErr]
  ELSE IF st.version THEN [printedUsage |-> TRUE, err |-> NilErr]
  ELSE IF st.help THEN [Usage EXCEPT !.printedUsage = TRUE, !.err = NilErr]
  ELSE [printedUsage |-> FALSE, err |-> NilErr]

\* run(): installSignalHandler registers channel c and starts the handler
RunInstallHandler ==
  /\ mpc = "start"
  /\ mpc' = "parse"
  /\ notifying' = TRUE
  /\ hpc' = "recv"
  /\ UNCHANGED <<args, cmdOutcome, rc, waitCalled, sigBuf, sigClosed,
                 signalsSent, quitCalls, cmdFinished>>
  /\ UNCHANGED <<coreVars, ctxVars, proxyVars, authVars>>

\* run(): parseFlags and the exit codes of the usage paths
RunParseFlags ==
  /\ mpc = "parse"
  /\ LET f == parseFlags(args) IN
       IF f.printedUsage
         THEN /\ rc' = IF f.err # NilErr THEN 2 ELSE 0
              /\ mpc' = "stop"
         ELSE /\ mpc' = "wait"
              /\ rc' = rc
  /\ UNCHANGED <<args, cmdOutcome, waitCalled, hpc, sigBuf, sigClosed,
                 notifying, signalsSent, quitCalls, cmdFinished>>
  /\ UNCHANGED <<coreVars, ctxVars, proxyVars, authVars>>

\* run(): c.Wait() is called
RunCallWait ==
  /\ mpc = "wait"
  /\ mpc' = "waiting"
  /\ waitCalled' = TRUE
  /\ UNCHANGED <<args, cmdOutcome, rc, hpc, sigBuf, sigClosed, notifying,
                 signalsSent, quitCalls, cmdFinished>>
  /\ UNCHANGED <<coreVars, ctxVars, proxyVars, authVars>>

\* the cmd's work ends by itself: the idle timeout or the last run
CmdFinishes ==
  /\ mpc \in {"wait", "waiting"}
  /\ ~cmdFinished
  /\ cmdFinished' = TRUE
  /\ UNCHANGED <<args, cmdOutcome, mpc, rc, waitCalled, hpc, sigBuf,
                 sigClosed, notifying, signalsSent, quitCalls>>
  /\ UNCHANGED <<coreVars, ctxVars, proxyVars, authVars>>

\* run(): c.Wait() returns, once the cmd finished or Quit() was called
RunWaitReturns ==
  /\ mpc = "waiting"
  /\ cmdFinished \/ quitCalls > 0
  /\ rc' = IF AppWait(cmdOutcome) # NilResult THEN 1 ELSE 0
  /\ mpc' = "stop"
  /\ UNCHANGED <<args, cmdOutcome, waitCalled, hpc, sigBuf, sigClosed,
                 notifying, signalsSent, quitCalls, cmdFinished>>
  /\ UNCHANGED <<coreVars, ctxVars, proxyVars, authVars>>

\* run() deferred: signal.Stop(c)
RunSignalStop ==
  /\ mpc = "stop"
  /\ mpc' = "close"
  /\ notifying' = FALSE
  /\ UNCHANGED <<args, cmdOutcome, rc, waitCalled, hpc, sigBuf, sigClosed,
                 signalsSent, quitCalls, cmdFinished>>
  /\ UNCHANGED <<coreVars, ctxVars, proxyVars, authVars>>

\* run() deferred: close(c)
RunCloseChan ==
  /\ mpc = "close"
  /\ mpc' = "wgWait"
  /\ sigClosed' = TRUE
  /\ UNCHANGED <<args, cmdOutcome, rc, waitCalled, hpc, sigBuf, notifying,
                 signalsSent, quitCalls, cmdFinished>>
  /\ UNCHANGED <<coreVars, ctxVars, proxyVars, authVars>>

\* run() deferred: wg.Wait(), then run() returns rc
RunWgWait ==
  /\ mpc = "wgWait"
  /\ hpc = "done"
  /\ mpc' = "returned"
  /\ UNCHANGED <<args, cmdOutcome, rc, waitCalled, hpc, sigBuf, sigClosed,
                 notifying, signalsSent, quitCalls, cmdFinished>>
  /\ UNCHANGED <<coreVars, ctxVars, proxyVars, authVars>>

\* the runtime delivers a signal: a non-blocking send on channel c, which
\* has room for one signal
SignalArrives(sig) ==
  /\ notifying
  /\ signalsSent < MaxSignals
  /\ signalsSent' = signalsSent + 1
  /\ sigBuf' = IF sigBuf = "none" THEN sig ELSE sigBuf
  /\ UNCHANGED <<args, cmdOutcome, mpc, rc, waitCalled, hpc, sigClosed,
                 notifying, quitCalls, cmdFinished>>
  /\ UNCHANGED <<coreVars, ctxVars, proxyVars, authVars>>

\* handler: v, ok := <-c; a buffered signal is received before the close
HandlerReceive ==
  /\ hpc = "recv"
  /\ sigBuf # "none" \/ sigClosed
  /\ IF sigBuf \in Signals
       THEN /\ hpc' = "quit"
            /\ sigBuf' = "none"
       ELSE /\ hpc' = "done"
            /\ sigBuf' = sigBuf
  /\ UNCHANGED <<args, cmdOutcome, mpc, rc, waitCalled, sigClosed, notifying,
                 signalsSent, quitCalls, cmdFinished>>
  /\ UNCHANGED <<coreVars, ctxVars, proxyVars, authVars>>

\* mutant: the handler keeps listening after it called Quit()
HandlerQuitLoops ==
  /\ hpc = "quit"
  /\ quitCalls' = quitCalls + 1
  /\ hpc' = "recv"
  /\ UNCHANGED <<args, cmdOutcome, mpc, rc, waitCalled, sigBuf, sigClosed,
                 notifying, signalsSent, cmdFinished>>
  /\ UNCHANGED <<coreVars, ctxVars, proxyVars, authVars>>

\* handler: a.Quit(); return (wg.Done is deferred)
HandlerQuit ==
  /\ hpc = "quit"
  /\ quitCalls' = quitCalls + 1
  /\ hpc' = "done"
  /\ UNCHANGED <<args, cmdOutcome, mpc, rc, waitCalled, sigBuf, sigClosed,
                 notifying, signalsSent, cmdFinished>>
  /\ UNCHANGED <<coreVars, ctxVars, proxyVars, authVars>>

MainInit ==
  /\ \E a \in ArgLists, o \in CmdOutcomes : MainStart(a, o)
  /\ CoreInit /\ CtxInit /\ ProxyIdle /\ AuthIdle

MainNext ==
  \/ RunInstallHandler
  \/ RunParseFlags
  \/ RunCallWait
  \/ CmdFinishes
  \/ RunWaitReturns
  \/ RunSignalStop
  \/ RunCloseChan
  \/ RunWgWait
  \/ \E sig \in Signals : SignalArrives(sig)
  \/ HandlerReceive
  \/ HandlerQuit

MainSpec == MainInit /\ [][MainNext]_vars

\* the steps of run()
RunFnSteps ==
  \/ RunInstallHandler
  \/ RunParseFlags
  \/ RunCallWait
  \/ RunWaitReturns
  \/ RunSignalStop
  \/ RunCloseChan
  \/ RunWgWait

\* the steps of the handler goroutine
HandlerSteps == HandlerReceive \/ HandlerQuit

\* The Go scheduler runs the main goroutine and the handler goroutine
\* whenever they can take a step; nothing obliges a signal to arrive or the
\* cmd to finish.
MainFairSpec ==
  /\ MainSpec
  /\ WF_vars(RunFnSteps)
  /\ WF_vars(HandlerSteps)

\* a token that is not a flag parseFlags defines
BadToken(t) == t.dashes = 0 \/ t.name \notin {"d", "debug", "v", "version", "h", "help"}
\* a token asking for the help text or the version
InfoToken(t) == t.dashes > 0 /\ t.name \in {"v", "version", "h", "help"}
\* run() has set its exit code
ExitCodeSet == mpc \in {"stop", "close", "wgWait", "returned"}

\* C21: run() exits with 2 on a usage error, with 0 for the help and version
\* flags, in both cases without calling Wait(); otherwise it calls Wait() and
\* exits with 0 when Wait() returns no error (the idle timeout included) and
\* with 1 when Wait() returns an error.
C21_ExitCodes ==
  LET bad == \E i \in DOMAIN args : BadToken(args[i])
      info == \E i \in DOMAIN args : InfoToken(args[i])
  IN /\ waitCalled => ~bad /\ ~info
     /\ ExitCodeSet =>
          IF bad THEN rc = 2 /\ ~waitCalled
          ELSE IF info THEN rc = 0 /\ ~waitCalled
          ELSE /\ waitCalled
               /\ cmdOutcome \in {NilResult, ErrTimeoutReached} => rc = 0
               /\ cmdOutcome \notin {NilResult, ErrTimeoutReached} => rc = 1

\* run() returned 0 for --help given after -d, without calling Wait()
C21_Witness ==
  /\ mpc = "returned"
  /\ args = <<Token(1, "d"), Token(2, "help")>>
  /\ rc = 0
  /\ ~waitCalled

\* C26: a signal that reaches the handler's channel while run() is blocked
\* in Wait() leads to run() returning with Quit() called exactly once; the
\* handler never calls Quit() twice; and run() never returns before the
\* handler goroutine has terminated.
C26_SignalQuitsOnce ==
  /\ [](quitCalls <= 1)
  /\ [](mpc = "returned" => hpc = "done")
  /\ (mpc = "waiting" /\ sigBuf # "none") ~> (mpc = "returned" /\ quitCalls = 1)

\* run() returned after two signals, the first of which made the handler
\* call Quit() while run() was in Wait()
C26_Witness ==
  /\ mpc = "returned"
  /\ waitCalled
  /\ ~cmdFinished
  /\ signalsSent = 2
  /\ quitCalls = 1

\* ---- the context-based App: internal/app/app.go ---------------------------
\* what an unsynchronised read of busObject.running can return: the value
\* it holds, or the value of any write made by an Apply call, none of which
\* is ordered with the read
RacyRunning == IF runningWritten THEN BOOLEAN ELSE {running}

\* the cause context.WithCancelCause records for cancel(e)
CauseOf(e) == IF e = NilErr THEN Canceled ELSE e

\* App.Wait's result for a cancelled context with cause c
WaitOutcome(c) == IF c # NilErr /\ c # Canceled THEN c ELSE NilErr

\* calls that hold busObject.mu
Holding == {c \in Calls : cpc[c] \in {"setRunning", "auth", "apply", "clear",
                                      "cancel", "unlock"}}
\* calls that hold busObject.mu and have not yet cancelled the context
Applying == {c \in Calls : cpc[c] \in {"setRunning", "auth", "apply", "clear",
                                       "cancel"}}

\* the D-Bus library spawns a goroutine for an incoming Apply call
CtxApplyCall(c) ==
  /\ cpc[c] = "idle"
  /\ cpc' = [cpc EXCEPT ![c] = "lock"]
  /\ UNCHANGED <<ctxDone, ctxCause, running, runningWritten, mu, cerr,
                 cresult, cwpc, cwResult, after, cqpc, heldAtQuit, heldAtWaitReturn,
                 waitPath>>
  /\ UNCHANGED <<coreVars, mainVars, proxyVars, authVars>>

\* Apply: b.mu.Lock()
CtxApplyLock(c) ==
  /\ cpc[c] = "lock"
  /\ mu = 0
  /\ mu' = c
  /\ cpc' = [cpc EXCEPT ![c] = "setRunning"]
  /\ UNCHANGED <<ctxDone, ctxCause, running, runningWritten, cerr, cresult,
                 cwpc, cwResult, after, cqpc, heldAtQuit, heldAtWaitReturn,
                 waitPath>>
  /\ UNCHANGED <<coreVars, mainVars, proxyVars, authVars>>

\* Apply: b.running = true
CtxApplySetRunning(c) ==
  /\ cpc[c] = "setRunning"
  /\ running' = TRUE
  /\ runningWritten' = TRUE
  /\ cpc' = [cpc EXCEPT ![c] = "auth"]
  /\ UNCHANGED <<ctxDone, ctxCause, mu, cerr, cresult, cwpc, cwResult, after,
                 cqpc, heldAtQuit, heldAtWaitReturn,
                 waitPath>>
  /\ UNCHANGED <<coreVars, mainVars, proxyVars, authVars>>

\* Apply: err = b.authorizer.IsSenderAllowed(...)
CtxApplyAuthorize(c) ==
  /\ cpc[c] = "auth"
  /\ \E allowed \in BOOLEAN :
       IF allowed
         THEN /\ cpc' = [cpc EXCEPT ![c] = "apply"]
              /\ UNCHANGED <<cerr, cresult>>
         ELSE /\ cerr' = [cerr EXCEPT ![c] = AuthErr(c)]
              /\ cresult' = [cresult EXCEPT ![c] = MakeFailedError(AuthErr(c))]
              /\ cpc' = [cpc EXCEPT ![c] = "clear"]
  /\ UNCHANGED <<ctxDone, ctxCause, running, runningWritten, mu, cwpc,
                 cwResult, after, cqpc, heldAtQuit, heldAtWaitReturn,
                 waitPath>>
  /\ UNCHANGED <<coreVars, mainVars, proxyVars, authVars>>

\* Apply: err = b.proxy.Apply(...)
CtxApplyProxy(c) ==
  /\ cpc[c] = "apply"
  /\ \E ok \in BOOLEAN :
       IF ok
         THEN /\ cresult' = [cresult EXCEPT ![c] = NoDbusError]
              /\ cerr' = cerr
         ELSE /\ cerr' = [cerr EXCEPT ![c] = ApplyErr(c)]
              /\ cresult' = [cresult EXCEPT ![c] = MakeFailedError(ApplyErr(c))]
  /\ cpc' = [cpc EXCEPT ![c] = "clear"]
  /\ UNCHANGED <<ctxDone, ctxCause, running, runningWritten, mu, cwpc,
                 cwResult, after, cqpc, heldAtQuit, heldAtWaitReturn,
                 waitPath>>
  /\ UNCHANGED <<coreVars, mainVars, proxyVars, authVars>>

\* Apply deferred: b.running = false
CtxApplyClearRunning(c) ==
  /\ cpc[c] = "clear"
  /\ running' = FALSE
  /\ cpc' = [cpc EXCEPT ![c] = "cancel"]
  /\ UNCHANGED <<ctxDone, ctxCause, runningWritten, mu, cerr, cresult, cwpc,
                 cwResult, after, cqpc, heldAtQuit, heldAtWaitReturn,
                 waitPath>>
  /\ UNCHANGED <<coreVars, mainVars, proxyVars, authVars>>

\* mutant: every cancellation replaces the cause
CtxApplyCancelOverwrites(c) ==
  /\ cpc[c] = "cancel"
  /\ ctxDone' = TRUE
  /\ ctxCause' = CauseOf(cerr[c])
  /\ cpc' = [cpc EXCEPT ![c] = "unlock"]
  /\ UNCHANGED <<running, runningWritten, mu, cerr, cresult, cwpc, cwResult,
                 after, cqpc, heldAtQuit, heldAtWaitReturn,
                 waitPath>>
  /\ UNCHANGED <<coreVars, mainVars, proxyVars, authVars>>

\* Apply deferred: b.cancel(err); only the first cancellation sets the cause
CtxApplyCancel(c) ==
  /\ cpc[c] = "cancel"
  /\ IF ctxDone
       THEN UNCHANGED <<ctxDone, ctxCause>>
       ELSE /\ ctxDone' = TRUE
            /\ ctxCause' = CauseOf(cerr[c])
  /\ cpc' = [cpc EXCEPT ![c] = "unlock"]
  /\ UNCHANGED <<running, runningWritten, mu, cerr, cresult, cwpc, cwResult,
                 after, cqpc, heldAtQuit, heldAtWaitReturn,
                 waitPath>>
  /\ UNCHANGED <<coreVars, mainVars, proxyVars, authVars>>

\* Apply deferred: b.mu.Unlock(), and the call returns
CtxApplyUnlock(c) ==
  /\ cpc[c] = "unlock"
  /\ mu' = 0
  /\ cpc' = [cpc EXCEPT ![c] = "done"]
  /\ UNCHANGED <<ctxDone, ctxCause, running, runningWritten, cerr, cresult,
                 cwpc, cwResult, after, cqpc, heldAtQuit, heldAtWaitReturn,
                 waitPath>>
  /\ UNCHANGED <<coreVars, mainVars, proxyVars, authVars>>

\* App.Wait: the select is entered and time.After(timeout) starts its timer
CtxWaitBegin ==
  /\ cwpc = "idle"
  /\ cwpc' = "select"
  /\ after' = "running"
  /\ UNCHANGED <<ctxDone, ctxCause, running, runningWritten, mu, cpc, cerr,
                 cresult, cwResult, cqpc, heldAtQuit, heldAtWaitReturn,
                 waitPath>>
  /\ UNCHANGED <<coreVars, mainVars, proxyVars, authVars>>

\* the timer of time.After expires
CtxTimerFire ==
  /\ after = "running"
  /\ after' = "fired"
  /\ UNCHANGED <<ctxDone, ctxCause, running, runningWritten, mu, cpc, cerr,
                 cresult, cwpc, cwResult, cqpc, heldAtQuit, heldAtWaitReturn,
                 waitPath>>
  /\ UNCHANGED <<coreVars, mainVars, proxyVars, authVars>>

\* App.Wait: case <-time.After(timeout)
CtxWaitSelectTimeout ==
  /\ cwpc = "select"
  /\ after = "fired"
  /\ cwpc' = "readRunning"
  /\ UNCHANGED <<ctxDone, ctxCause, running, runningWritten, mu, cpc, cerr,
                 cresult, cwResult, after, cqpc, heldAtQuit, heldAtWaitReturn,
                 waitPath>>
  /\ UNCHANGED <<coreVars, mainVars, proxyVars, authVars>>

\* App.Wait, timeout case: if a.busObject.running { ... }; return nil
CtxWaitReadRunning ==
  /\ cwpc = "readRunning"
  /\ \E v \in RacyRunning :
       IF v
         THEN /\ cwpc' = "awaitDone"
              /\ UNCHANGED <<cwResult, heldAtWaitReturn, waitPath>>
         ELSE /\ cwpc' = "returned"
              /\ cwResult' = NilErr
              /\ heldAtWaitReturn' = Applying
              /\ waitPath' = "timeout"
  /\ UNCHANGED <<ctxDone, ctxCause, running, runningWritten, mu, cpc, cerr,
                 cresult, after, cqpc, heldAtQuit>>
  /\ UNCHANGED <<coreVars, mainVars, proxyVars, authVars>>

\* App.Wait, timeout case: <-a.busObject.ctx.Done(); return nil
CtxWaitAwaitDone ==
  /\ cwpc = "awaitDone"
  /\ ctxDone
  /\ cwpc' = "returned"
  /\ cwResult' = NilErr
  /\ heldAtWaitReturn' = Applying
  /\ waitPath' = "timeout, then done"
  /\ UNCHANGED <<ctxDone, ctxCause, running, runningWritten, mu, cpc, cerr,
                 cresult, after, cqpc, heldAtQuit>>
  /\ UNCHANGED <<coreVars, mainVars, proxyVars, authVars>>

\* App.Wait: case <-a.busObject.ctx.Done()
CtxWaitSelectDone ==
  /\ cwpc = "select"
  /\ ctxDone
  /\ cwpc' = "returned"
  /\ cwResult' = WaitOutcome(ctxCause)
  /\ heldAtWaitReturn' = Applying
  /\ waitPath' = "done"
  /\ UNCHANGED <<ctxDone, ctxCause, running, runningWritten, mu, cpc, cerr,
                 cresult, after, cqpc, heldAtQuit>>
  /\ UNCHANGED <<coreVars, mainVars, proxyVars, authVars>>

\* App.Quit: if a.busObject.running
CtxQuitReadRunning ==
  /\ cqpc = "idle"
  /\ heldAtQuit' = Holding
  /\ \E v \in RacyRunning :
       cqpc' = IF v THEN "awaitDone" ELSE "cancel"
  /\ UNCHANGED <<ctxDone, ctxCause, running, runningWritten, mu, cpc, cerr,
                 cresult, cwpc, cwResult, after, heldAtWaitReturn,
                 waitPath>>
  /\ UNCHANGED <<coreVars, mainVars, proxyVars, authVars>>

\* App.Quit: <-a.busObject.ctx.Done(); return
CtxQuitAwaitDone ==
  /\ cqpc = "awaitDone"
  /\ ctxDone
  /\ cqpc' = "returned"
  /\ UNCHANGED <<ctxDone, ctxCause, running, runningWritten, mu, cpc, cerr,
                 cresult, cwpc, cwResult, after, heldAtQuit, heldAtWaitReturn,
                 waitPath>>
  /\ UNCHANGED <<coreVars, mainVars, proxyVars, authVars>>

\* App.Quit: a.busObject.cancel(nil)
CtxQuitCancel ==
  /\ cqpc = "cancel"
  /\ IF ctxDone
       THEN UNCHANGED <<ctxDone, ctxCause>>
       ELSE /\ ctxDone' = TRUE
            /\ ctxCause' = CauseOf(NilErr)
  /\ cqpc' = "returned"
  /\ UNCHANGED <<running, runningWritten, mu, cpc, cerr, cresult, cwpc,
                 cwResult, after, heldAtQuit, heldAtWaitReturn,
                 waitPath>>
  /\ UNCHANGED <<coreVars, mainVars, proxyVars, authVars>>

CtxSpecInit == CoreInit /\ MainIdle /\ CtxInit /\ ProxyIdle /\ AuthIdle

CtxNext ==
  \/ \E c \in Calls : CtxApplyCall(c)
  \/ \E c \in Calls : CtxApplyLock(c)
  \/ \E c \in Calls : CtxApplySetRunning(c)
  \/ \E c \in Calls : CtxApplyAuthorize(c)
  \/ \E c \in Calls : CtxApplyProxy(c)
  \/ \E c \in Calls : CtxApplyClearRunning(c)
  \/ \E c \in Calls : CtxApplyCancel(c)
  \/ \E c \in Calls : CtxApplyUnlock(c)
  \/ CtxWaitBegin
  \/ CtxTimerFire
  \/ CtxWaitSelectTimeout
  \/ CtxWaitReadRunning
  \/ CtxWaitAwaitDone
  \/ CtxWaitSelectDone
  \/ CtxQuitReadRunning
  \/ CtxQuitAwaitDone
  \/ CtxQuitCancel

CtxSpec == CtxSpecInit /\ [][CtxNext]_vars

\* calls that have been made
Called == {c \in Calls : cpc[c] # "idle"}
\* calls that returned an error to their D-Bus caller
Failed == {c \in Calls : cpc[c] = "done" /\ cresult[c] # NoDbusError}

\* C24: with Quit() never called, once Wait() has returned and the one Apply
\* call made has returned, Wait()'s result is an error if that call failed
\* (authorization rejected or apply error) and nil if it succeeded; with no
\* call made it is nil.
C24_WaitReflectsApply ==
  (cwpc = "returned" /\ cqpc = "idle") =>
    /\ Called = {} => cwResult = NilErr
    /\ \A c \in Calls :
         (Called = {c} /\ cpc[c] = "done") =>
           (cwResult # NilErr <=> c \in Failed)

\* C25: Quit() does not return while an Apply call that held the mutex when
\* Quit() was called is still before its cancel; and a Quit() called with no
\* Apply call made leaves the context cancelled with Wait() returning nil.
C25_QuitWaitsForApply ==
  cqpc = "returned" =>
    /\ heldAtQuit \cap Applying = {}
    /\ (Called = {} /\ cwpc = "returned") => cwResult = NilErr

\* ---- the proxy backends: internal/proxy -----------------------------------
\* a line of a configuration file
Line(k, a, b) == [kind |-> k, a |-> a, b |-> b]
\* confHeader
Header == Line("header", "", "")
\* a file that exists with the given lines
File(c) == [exists |-> TRUE, content |-> c]
\* a configuration file the proxy manager did not write
Foreign == File(<<Line("text", "some-old-contents", "")>>)

\* the arguments of an Apply call: the http and auto URLs (https, ftp, socks
\* and no_proxy are left empty), each valid
ParamSets ==
  [http : {"", "http://a:1", "http://b:2"}, auto : {"", "http://a/proxy.pac"}]

\* protocol.String() in upper and in lower case
Upper == [HTTP |-> "HTTP", Auto |-> "AUTO"]
Lower == [HTTP |-> "http", Auto |-> "auto"]

\* newSettings: one setting per non-empty argument, http before auto
newSettings(p) ==
  (IF p.http # "" THEN <<[protocol |-> "HTTP", escapedURL |-> p.http]>>
                  ELSE <<>>)
  \o (IF p.auto # "" THEN <<[protocol |-> "Auto", escapedURL |-> p.auto]>>
                     ELSE <<>>)

\* the concatenation of the strings written for each setting, in order
RECURSIVE Concat(_)
Concat(strs) ==
  IF strs = <<>> THEN <<>> ELSE Head(strs) \o Concat(Tail(strs))

\* setting.envString
envString(st) ==
  <<Line("env", Upper[st.protocol] \o "_PROXY", st.escapedURL),
    Line("env", Lower[st.protocol] \o "_proxy", st.escapedURL)>>

\* Proxy.envConfig
envConfig(settings) == <<Header>> \o Concat([i \in DOMAIN settings |-> envString(settings[i])])

\* unsupportedAPTProtocols, among the protocols of the model
unsupportedAPTProtocols == {"Auto"}

\* setting.aptString
aptString(st) ==
  IF st.protocol \in unsupportedAPTProtocols THEN <<>>
  ELSE <<Line("apt", Lower[st.protocol], st.escapedURL)>>

\* Proxy.aptConfig
aptConfig(settings) == <<Header>> \o Concat([i \in DOMAIN settings |-> aptString(settings[i])])

\* Proxy.noSupportedProtocols: every setting is of an unsupported protocol
noSupportedProtocols(settings, unsupported) ==
  \A i \in DOMAIN settings : settings[i].protocol \in unsupported

\* setting.gsettingsString
gsettingsString(st) ==
  IF st.protocol = "Auto"
    THEN <<Line("section", "org.gnome.system.proxy", ""),
           Line("autoconfig-url", st.escapedURL, ""), Line("", "", "")>>
    ELSE <<Line("section", "org.gnome.system.proxy", Lower[st.protocol]),
           Line("host", st.escapedURL, ""), Line("port", st.escapedURL, ""),
           Line("", "", "")>>

\* Proxy.gsettingsProxyMode
gsettingsProxyMode(settings) ==
  IF \E i \in DOMAIN settings : settings[i].protocol = "Auto"
    THEN "auto" ELSE "manual"

\* Proxy.gsettingsConfig
gsettingsConfig(settings) ==
  <<Header>> \o Concat([i \in DOMAIN settings |-> gsettingsString(settings[i])])
  \o <<Line("section", "org.gnome.system.proxy", ""),
       Line("mode", gsettingsProxyMode(settings), "")>>

\* previousConfig: the content of the file, or an error: the file does not
\* exist, or it cannot be read (ok false)
previousConfig(f, ok) ==
  IF ~f.exists THEN [content |-> <<>>, err |-> "ErrNotExist"]
  ELSE IF ok THEN [content |-> f.content, err |-> "nil"]
  ELSE [content |-> <<>>, err |-> "error"]

\* safeWriteFile: the content is written to path.new, which is then renamed
\* to path; when either fails (ok false) path is left as it was
safeWriteFile(f, content, ok) == IF ok THEN File(content) ELSE f

\* the faults a backend call may meet: reading the previous file, removing
\* it, creating the parent directory, writing the file, running
\* glib-compile-schemas, writing the file back
Faults ==
  [read : BOOLEAN, remove : BOOLEAN, mkdir : BOOLEAN, write : BOOLEAN,
   glib : BOOLEAN, revert : BOOLEAN]
\* the faults of a backend that only reads, removes and writes its file
FileFaults == {io \in Faults : io.glib /\ io.revert}
\* the faults of the GSettings backend, which creates no directory
GlibFaults == {io \in Faults : io.mkdir}

\* what a backend call did; writeBack: glib-compile-schemas failed and the
\* file system accepted a write of the file after that; tick tells one call
\* from the next
Op(b, had, wrote, removed, glibRan, glibFailed, writeBack, e) ==
  [backend |-> b, tick |-> 1 - lastOp.tick, had |-> had, wrote |-> wrote,
   removed |-> removed, glibRan |-> glibRan, glibFailed |-> glibFailed,
   writeBack |-> writeBack, err |-> e]

\* a D-Bus Apply call with new arguments reaches the proxy manager
ProxyNewApply ==
  /\ \E p \in ParamSets : p # params /\ params' = p
  /\ lastOp' = NoOp
  /\ UNCHANGED <<files, glibInstalled, schemasDir>>
  /\ UNCHANGED <<coreVars, mainVars, ctxVars, authVars>>

\* Proxy.applyToEnvironment, io being the faults it meets
applyToEnvironment(io) ==
  LET settings == newSettings(params)
      content == envConfig(settings)
      f == files["env"]
      prev == previousConfig(f, io.read)
  IN
  /\ IF Len(settings) = 0
       THEN IF ~f.exists
              THEN /\ files' = files
                   /\ lastOp' = Op("env", FALSE, FALSE, FALSE, FALSE, FALSE,
                                   FALSE, FALSE)
              ELSE IF io.remove
                THEN /\ files' = [files EXCEPT !["env"] = Absent]
                     /\ lastOp' = Op("env", TRUE, FALSE, TRUE, FALSE, FALSE,
                                     FALSE, FALSE)
                ELSE /\ files' = files
                     /\ lastOp' = Op("env", TRUE, FALSE, FALSE, FALSE, FALSE,
                                     FALSE, TRUE)
       ELSE IF prev.err = "nil" /\ prev.content = content
         THEN /\ files' = files
              /\ lastOp' = Op("env", TRUE, FALSE, FALSE, FALSE, FALSE, FALSE,
                              FALSE)
       ELSE IF prev.err = "error" \/ ~io.mkdir
         THEN /\ files' = files
              /\ lastOp' = Op("env", f.exists, FALSE, FALSE, FALSE, FALSE,
                              FALSE, TRUE)
       ELSE /\ files' = [files EXCEPT
                           !["env"] = safeWriteFile(f, content, io.write)]
            /\ lastOp' = Op("env", f.exists, io.write, FALSE, FALSE, FALSE,
                            FALSE, ~io.write)
  /\ UNCHANGED <<params, glibInstalled, schemasDir>>
  /\ UNCHANGED <<coreVars, mainVars, ctxVars, authVars>>

\* mutant: the APT file is written without comparing it to the new content
applyToAPTAlwaysWrites(io) ==
  LET settings == newSettings(params)
      content == aptConfig(settings)
      f == files["apt"]
      prev == previousConfig(f, io.read)
  IN
  /\ IF noSupportedProtocols(settings, unsupportedAPTProtocols)
       THEN IF ~f.exists
              THEN /\ files' = files
                   /\ lastOp' = Op("apt", FALSE, FALSE, FALSE, FALSE, FALSE,
                                   FALSE, FALSE)
              ELSE IF io.remove
                THEN /\ files' = [files EXCEPT !["apt"] = Absent]
                     /\ lastOp' = Op("apt", TRUE, FALSE, TRUE, FALSE, FALSE,
                                     FALSE, FALSE)
                ELSE /\ files' = files
                     /\ lastOp' = Op("apt", TRUE, FALSE, FALSE, FALSE, FALSE,
                                     FALSE, TRUE)
       ELSE IF prev.err = "error" \/ ~io.mkdir
         THEN /\ files' = files
              /\ lastOp' = Op("apt", f.exists, FALSE, FALSE, FALSE, FALSE,
                              FALSE, TRUE)
       ELSE /\ files' = [files EXCEPT
                           !["apt"] = safeWriteFile(f, content, io.write)]
            /\ lastOp' = Op("apt", f.exists, io.write, FALSE, FALSE, FALSE,
                            FALSE, ~io.write)
  /\ UNCHANGED <<params, glibInstalled, schemasDir>>
  /\ UNCHANGED <<coreVars, mainVars, ctxVars, authVars>>

\* Proxy.applyToAPT, io being the faults it meets
applyToAPT(io) ==
  LET settings == newSettings(params)
      content == aptConfig(settings)
      f == files["apt"]
      prev == previousConfig(f, io.read)
  IN
  /\ IF noSupportedProtocols(settings, unsupportedAPTProtocols)
       THEN IF ~f.exists
              THEN /\ files' = files
                   /\ lastOp' = Op("apt", FALSE, FALSE, FALSE, FALSE, FALSE,
                                   FALSE, FALSE)
              ELSE IF io.remove
                THEN /\ files' = [files EXCEPT !["apt"] = Absent]
                     /\ lastOp' = Op("apt", TRUE, FALSE, TRUE, FALSE, FALSE,
                                     FALSE, FALSE)
                ELSE /\ files' = files
                     /\ lastOp' = Op("apt", TRUE, FALSE, FALSE, FALSE, FALSE,
                                     FALSE, TRUE)
       ELSE IF prev.err = "nil" /\ prev.content = content
         THEN /\ files' = files
              /\ lastOp' = Op("apt", TRUE, FALSE, FALSE, FALSE, FALSE, FALSE,
                              FALSE)
       ELSE IF prev.err = "error" \/ ~io.mkdir
         THEN /\ files' = files
              /\ lastOp' = Op("apt", f.exists, FALSE, FALSE, FALSE, FALSE,
                              FALSE, TRUE)
       ELSE /\ files' = [files EXCEPT
                           !["apt"] = safeWriteFile(f, content, io.write)]
            /\ lastOp' = Op("apt", f.exists, io.write, FALSE, FALSE, FALSE,
                            FALSE, ~io.write)
  /\ UNCHANGED <<params, glibInstalled, schemasDir>>
  /\ UNCHANGED <<coreVars, mainVars, ctxVars, authVars>>

\* mutant: a failure of glib-compile-schemas is returned without writing
\* the previous content back
applyToGSettingsNoRevert(io) ==
  LET settings == newSettings(params)
      content == gsettingsConfig(settings)
      f == files["gsettings"]
      prev == previousConfig(f, io.read)
      written == safeWriteFile(f, content, io.write)
  IN
  /\ IF ~glibInstalled
       THEN /\ files' = files
            /\ lastOp' = Op("gsettings", FALSE, FALSE, FALSE, FALSE, FALSE,
                            FALSE, FALSE)
       ELSE IF schemasDir # "dir"
         THEN /\ files' = files
              /\ lastOp' = Op("gsettings", FALSE, FALSE, FALSE, FALSE, FALSE,
                              FALSE, TRUE)
       ELSE IF Len(settings) = 0
         THEN IF ~f.exists
                THEN /\ files' = files
                     /\ lastOp' = Op("gsettings", FALSE, FALSE, FALSE, FALSE,
                                     FALSE, FALSE, FALSE)
                ELSE IF io.remove
                  THEN /\ files' = [files EXCEPT !["gsettings"] = Absent]
                       /\ lastOp' = Op("gsettings", TRUE, FALSE, TRUE, TRUE,
                                       ~io.glib, FALSE, ~io.glib)
                  ELSE /\ files' = files
                       /\ lastOp' = Op("gsettings", TRUE, FALSE, FALSE, FALSE,
                                       FALSE, FALSE, TRUE)
       ELSE IF prev.err = "nil" /\ prev.content = content
         THEN /\ files' = files
              /\ lastOp' = Op("gsettings", TRUE, FALSE, FALSE, FALSE, FALSE,
                              FALSE, FALSE)
       ELSE IF prev.err = "error" \/ ~io.write
         THEN /\ files' = files
              /\ lastOp' = Op("gsettings", f.exists, FALSE, FALSE, FALSE,
                              FALSE, FALSE, TRUE)
       ELSE /\ files' = [files EXCEPT !["gsettings"] = written]
            /\ lastOp' = Op("gsettings", prev.err = "nil", TRUE, FALSE, TRUE,
                            ~io.glib, ~io.glib /\ io.revert, ~io.glib)
  /\ UNCHANGED <<params, glibInstalled, schemasDir>>
  /\ UNCHANGED <<coreVars, mainVars, ctxVars, authVars>>

\* Proxy.applyToGSettings, io being the faults it meets
applyToGSettings(io) ==
  LET settings == newSettings(params)
      content == gsettingsConfig(settings)
      f == files["gsettings"]
      prev == previousConfig(f, io.read)
      written == safeWriteFile(f, content, io.write)
  IN
  /\ IF ~glibInstalled
       THEN /\ files' = files
            /\ lastOp' = Op("gsettings", FALSE, FALSE, FALSE, FALSE, FALSE,
                            FALSE, FALSE)
       ELSE IF schemasDir # "dir"
         THEN /\ files' = files
              /\ lastOp' = Op("gsettings", FALSE, FALSE, FALSE, FALSE, FALSE,
                              FALSE, TRUE)
       ELSE IF Len(settings) = 0
         THEN IF ~f.exists
                THEN /\ files' = files
                     /\ lastOp' = Op("gsettings", FALSE, FALSE, FALSE, FALSE,
                                     FALSE, FALSE, FALSE)
                ELSE IF io.remove
                  THEN /\ files' = [files EXCEPT !["gsettings"] = Absent]
                       /\ lastOp' = Op("gsettings", TRUE, FALSE, TRUE, TRUE,
                                       ~io.glib, FALSE, ~io.glib)
                  ELSE /\ files' = files
                       /\ lastOp' = Op("gsettings", TRUE, FALSE, FALSE, FALSE,
                                       FALSE, FALSE, TRUE)
       ELSE IF prev.err = "nil" /\ prev.content = content
         THEN /\ files' = files
              /\ lastOp' = Op("gsettings", TRUE, FALSE, FALSE, FALSE, FALSE,
                              FALSE, FALSE)
       ELSE IF prev.err = "error" \/ ~io.write
         THEN /\ files' = files
              /\ lastOp' = Op("gsettings", f.exists, FALSE, FALSE, FALSE,
                              FALSE, FALSE, TRUE)
       ELSE IF io.glib
         THEN /\ files' = [files EXCEPT !["gsettings"] = written]
              /\ lastOp' = Op("gsettings", prev.err = "nil", TRUE, FALSE, TRUE,
                              FALSE, FALSE, FALSE)
       ELSE /\ files' = [files EXCEPT !["gsettings"] =
                           safeWriteFile(written, prev.content, io.revert)]
            /\ lastOp' = Op("gsettings", prev.err = "nil", TRUE, FALSE, TRUE,
                            TRUE, io.revert, TRUE)
  /\ UNCHANGED <<params, glibInstalled, schemasDir>>
  /\ UNCHANGED <<coreVars, mainVars, ctxVars, authVars>>

ProxyInit ==
  /\ \E p \in ParamSets, f \in [Backends -> {Absent, Foreign}],
        g \in BOOLEAN, d \in {"dir", "missing", "file"} :
       ProxyStart(p, f, g, d)
  /\ CoreInit /\ MainIdle /\ CtxInit /\ AuthIdle

ProxyNext ==
  \/ ProxyNewApply
  \/ \E io \in FileFaults : applyToEnvironment(io)
  \/ \E io \in FileFaults : applyToAPT(io)
  \/ \E io \in GlibFaults : applyToGSettings(io)

ProxySpec == ProxyInit /\ [][ProxyNext]_vars

\* this step is a call of backend b
CallOf(b) == lastOp'.backend = b /\ lastOp'.tick # lastOp.tick

Rendered(b, p) ==
  IF b = "env" THEN envConfig(newSettings(p))
  ELSE IF b = "apt" THEN aptConfig(newSettings(p))
  ELSE gsettingsConfig(newSettings(p))

\* backend b has settings of p to write (it does not remove its file)
HasSettings(b, p) ==
  IF b = "apt" THEN \E i \in DOMAIN newSettings(p) :
                      newSettings(p)[i].protocol # "Auto"
  ELSE newSettings(p) # <<>>

\* C28: a backend call whose rendered configuration equals the content of
\* its file neither changes nor rewrites the file and does not run
\* glib-compile-schemas; and a backend call that follows a successful call
\* of the same backend with the same parameters changes no file, writes and
\* removes nothing and does not run glib-compile-schemas.
C28_UpToDateUntouched ==
  [][\A b \in Backends :
       CallOf(b) =>
         /\ (HasSettings(b, params) /\ files[b] = File(Rendered(b, params)))
              => /\ files' = files
                 /\ ~lastOp'.wrote /\ ~lastOp'.glibRan
         /\ (lastOp.backend = b /\ ~lastOp.err)
              => /\ files' = files
                 /\ ~lastOp'.wrote /\ ~lastOp'.removed
                 /\ ~lastOp'.glibRan]_vars

\* a second call of applyToGSettings found the override file it had written
\* up to date and left it alone
C28_Witness ==
  /\ lastOp.backend = "gsettings"
  /\ lastOp.had /\ ~lastOp.wrote /\ ~lastOp.glibRan /\ ~lastOp.err
  /\ glibInstalled
  /\ files["gsettings"] = File(Rendered("gsettings", params))
  /\ files["apt"] = File(Rendered("apt", params))
  /\ files["env"] = File(Rendered("env", params))
  /\ newSettings(params) # <<>>

(***************************************************************************)
(* The authorizer: CheckSenderAllowed                                      *)
(***************************************************************************)

\* fmt.Errorf("msg: %w", e) and decorate.OnError: e under one more message;
\* nil stays nil
Wrap(msg, e) == IF e = NoErr THEN NoErr ELSE <<msg>> \o e
\* errors.New
ErrorsNew(msg) == <<msg>>

\* strings.IndexByte: 0-based index of the first c in s, -1 if there is none
IndexByte(s, c) ==
  IF \E i \in 1..Len(s) : s[i] = c
    THEN (CHOOSE i \in 1..Len(s) :
            s[i] = c /\ \A j \in 1..(i - 1) : s[j] # c) - 1
    ELSE -1

\* strings.Split(s, sep) for a one-byte separator
RECURSIVE Split(_, _)
Split(s, sep) ==
  LET i == IndexByte(s, sep)
  IN  IF i < 0 THEN <<s>>
      ELSE <<SubSeq(s, 1, i)>> \o Split(SubSeq(s, i + 2, Len(s)), sep)

Digits == {"0", "1", "2", "3", "4", "5", "6", "7", "8", "9"}
DigitVal == [d \in Digits |->
  CASE d = "0" -> 0 [] d = "1" -> 1 [] d = "2" -> 2 [] d = "3" -> 3
    [] d = "4" -> 4 [] d = "5" -> 5 [] d = "6" -> 6 [] d = "7" -> 7
    [] d = "8" -> 8 [] d = "9" -> 9]

\* the decimal digits of 1<<64 - 1
MaxUint64 == <<"1", "8", "4", "4", "6", "7", "4", "4", "0", "7", "3", "7",
               "0", "9", "5", "5", "1", "6", "1", "5">>

\* a digit string without its leading zeros (one digit is kept)
RECURSIVE StripZeros(_)
StripZeros(t) ==
  IF Len(t) > 1 /\ t[1] = "0" THEN StripZeros(Tail(t)) ELSE t

\* a > b for two digit strings of the same length
RECURSIVE DigitsGreater(_, _)
DigitsGreater(a, b) ==
  IF a = <<>> THEN FALSE
  ELSE IF DigitVal[a[1]] # DigitVal[b[1]] THEN DigitVal[a[1]] > DigitVal[b[1]]
  ELSE DigitsGreater(Tail(a), Tail(b))

\* strconv.ParseUint(t, 10, 64); the value is kept as its decimal digits
ParseUint(t) ==
  IF t = <<>> \/ \E i \in 1..Len(t) : t[i] \notin Digits
    THEN [val |-> NoStartTime, err |-> ErrorsNew("invalid syntax")]
  ELSE LET n == StripZeros(t)
       IN  IF Len(n) > Len(MaxUint64)
              \/ (Len(n) = Len(MaxUint64) /\ DigitsGreater(n, MaxUint64))
             THEN [val |-> NoStartTime,
                   err |-> ErrorsNew("value out of range")]
             ELSE [val |-> n, err |-> NoErr]

\* getStartTimeFromReader on an opened stat file
getStartTimeFromReader(f) ==
  LET contents == f.contents
      idx      == IndexByte(contents, ")")
      tokens   == Split(SubSeq(contents, idx + 3, Len(contents)), " ")
      v        == ParseUint(tokens[20])
      r == IF ~f.readOk
             THEN [val |-> NoStartTime, err |-> ErrorsNew("read error")]
           ELSE IF idx < 0
             THEN [val |-> NoStartTime,
                   err |-> ErrorsNew("parsing error: missing )")]
           ELSE IF idx + 2 > Len(contents)
             THEN [val |-> NoStartTime,
                   err |-> ErrorsNew("parsing error: ) at the end")]
           ELSE IF Len(tokens) < 20
             THEN [val |-> NoStartTime,
                   err |-> ErrorsNew("parsing error: less fields than required")]
           ELSE IF v.err # NoErr
             THEN [val |-> NoStartTime, err |-> Wrap("parsing error", v.err)]
           ELSE [val |-> v.val, err |-> NoErr]
  IN  [val |-> r.val,
       err |-> Wrap("can't determine start time of client process", r.err)]

\* the fields of a stat file, joined by single spaces
RECURSIVE Sp(_)
Sp(toks) ==
  IF toks = <<>> THEN <<>>
  ELSE IF Len(toks) = 1 THEN toks[1]
  ELSE toks[1] \o <<" ">> \o Sp(Tail(toks))

\* n fields holding 0
Zeros(n) == [i \in 1..n |-> <<"0">>]

\* pid, process name and state, the 18 fields between the state and the
\* start time, the start time t, and two further fields
Stat(name, t) ==
  Sp(<<<<"1">>, name, <<"S">>>> \o Zeros(18) \o <<t>> \o Zeros(2))

\* stat files with a start time the code accepts
GoodStats ==
  { Stat(<<"(", "a", ")">>, <<"4", "2">>),
    Stat(<<"(", "a", ")">>, <<"0", "0", "7">>),
    Stat(<<"(", "a", ")">>, MaxUint64),
    \* a process name holding ") ": the fields are counted from the first )
    Stat(<<"(", "a", ")", " ", "b", ")">>, <<"4", "2">>) }

\* stat files without a usable start time
MalformedStats ==
  { <<>>,
    \* missing )
    Sp(<<<<"1">>, <<"(", "a">>, <<"S">>>> \o Zeros(21)),
    \* ) at the end
    Sp(<<<<"1">>, <<"(", "a", ")">>>>),
    \* nothing after ") "
    Sp(<<<<"1">>, <<"(", "a", ")">>, <<>>>>),
    \* fewer fields than required
    Sp(<<<<"1">>, <<"(", "a", ")">>, <<"S">>>> \o Zeros(18)),
    \* the start time is not an unsigned integer
    Stat(<<"(", "a", ")">>, <<"a">>),
    Stat(<<"(", "a", ")">>, <<"-", "1">>),
    Stat(<<"(", "a", ")">>, <<>>),
    \* the start time is the last field, before the end of the line
    Sp(<<<<"1">>, <<"(", "a", ")">>, <<"S">>>> \o Zeros(18)
       \o << <<"4", "2", "\n">> >>),
    \* 1<<64
    Stat(<<"(", "a", ")">>,
         <<"1", "8", "4", "4", "6", "7", "4", "4", "0", "7", "3", "7", "0",
           "9", "5", "5", "1", "6", "1", "6">>) }

\* what GetConnectionCredentials may answer
CredsReplies ==
  [lookupErr : BOOLEAN, uid : {Uint32(0), Uint32(1000), NaN},
   pid : {Uint32(10000), NaN}]

\* what proc/<pid>/stat may be: missing, unreadable, or a file
StatFiles ==
  {[open |-> FALSE, readOk |-> FALSE, contents |-> <<>>]}
    \cup [open : {TRUE}, readOk : {FALSE}, contents : {Stat(<<"(", "a", ")">>, <<"4", "2">>)}]
    \cup [open : {TRUE}, readOk : {TRUE}, contents : GoodStats \cup MalformedStats]

\* what polkit may answer
PolkitReplies == [callErr : BOOLEAN, isAuthorized : BOOLEAN]

\* CheckSenderAllowed returns e, decorated when it is an error
AuthReturn(e) ==
  /\ authErr' = Wrap("permission denied", e)
  /\ authPc' = "done"

\* CheckSenderAllowed up to the call of isAllowed: the credentials lookup and
\* the two type assertions
CheckSenderAllowed ==
  /\ authPc = "start"
  /\ IF creds.lookupErr
       THEN AuthReturn(ErrorsNew("Credentials lookup error"))
     ELSE IF creds.uid.type # "uint32"
       THEN AuthReturn(ErrorsNew("can't get uid from dbus credentials"))
     ELSE IF creds.pid.type # "uint32"
       THEN AuthReturn(ErrorsNew("can't get pid from dbus credentials"))
     ELSE /\ authPc' = "isAllowed"
          /\ UNCHANGED authErr
  /\ UNCHANGED <<creds, statFile, polkit, startTime, polkitCalls>>
  /\ UNCHANGED <<coreVars, mainVars, ctxVars, proxyVars>>

\* isAllowed up to the opening of the stat file
isAllowed ==
  /\ authPc = "isAllowed"
  /\ IF creds.uid.val = 0
       THEN AuthReturn(NoErr)
     ELSE IF ~statFile.open
       THEN AuthReturn(Wrap("couldn't open stat file for process",
                            ErrorsNew("no such file or directory")))
     ELSE /\ authPc' = "startTime"
          /\ UNCHANGED authErr
  /\ UNCHANGED <<creds, statFile, polkit, startTime, polkitCalls>>
  /\ UNCHANGED <<coreVars, mainVars, ctxVars, proxyVars>>

\* isAllowed: the start time is read from the opened file
isAllowedStartTime ==
  /\ authPc = "startTime"
  /\ LET r == getStartTimeFromReader(statFile)
     IN  IF r.err # NoErr
           THEN AuthReturn(r.err) /\ UNCHANGED startTime
           ELSE /\ startTime' = r.val
                /\ authPc' = "polkit"
                /\ UNCHANGED authErr
  /\ UNCHANGED <<creds, statFile, polkit, polkitCalls>>
  /\ UNCHANGED <<coreVars, mainVars, ctxVars, proxyVars>>

\* isAllowedPolkit with a denial taken for an authorization
isAllowedPolkitIgnoresDenial ==
  /\ authPc = "polkit"
  /\ polkitCalls' = polkitCalls + 1
  /\ IF polkit.callErr
       THEN AuthReturn(Wrap("call to polkit failed",
                            ErrorsNew("Polkit error")))
       ELSE AuthReturn(NoErr)
  /\ UNCHANGED <<creds, statFile, polkit, startTime>>
  /\ UNCHANGED <<coreVars, mainVars, ctxVars, proxyVars>>

\* isAllowed: CheckAuthorization is called and its answer decides
isAllowedPolkit ==
  /\ authPc = "polkit"
  /\ polkitCalls' = polkitCalls + 1
  /\ IF polkit.callErr
       THEN AuthReturn(Wrap("call to polkit failed",
                            ErrorsNew("Polkit error")))
     ELSE IF ~polkit.isAuthorized
       THEN AuthReturn(ErrorsNew("polkit denied access"))
     ELSE AuthReturn(NoErr)
  /\ UNCHANGED <<creds, statFile, polkit, startTime>>
  /\ UNCHANGED <<coreVars, mainVars, ctxVars, proxyVars>>

AuthInit ==
  /\ \E c \in CredsReplies, s \in StatFiles, p \in PolkitReplies :
       AuthStart(c, s, p)
  /\ CoreInit /\ MainIdle /\ CtxInit /\ ProxyIdle

AuthNext ==
  \/ CheckSenderAllowed
  \/ isAllowed
  \/ isAllowedStartTime
  \/ isAllowedPolkit

AuthSpec == AuthInit /\ [][AuthNext]_vars

\* the credentials lookup gave a uid and a pid
CredsObtained ==
  ~creds.lookupErr /\ creds.uid.type = "uint32" /\ creds.pid.type = "uint32"

\* C29: CheckSenderAllowed returns nil exactly when the uid and pid were
\* obtained from the credentials lookup and either the uid is 0, polkit not
\* having been called, or a start time was parsed and polkit answered
\* IsAuthorized; a lookup error, a uid or pid that is not a number, and, for
\* a sender that is not root, a missing, unreadable or malformed stat file,
\* a polkit call error and a polkit denial each make it return an error.
C29_NilIffAllowed ==
  authPc = "done" =>
    /\ authErr = NoErr <=>
         /\ CredsObtained
         /\ \/ creds.uid.val = 0
            \/ /\ startTime # NoStartTime
               /\ polkitCalls = 1
               /\ ~polkit.callErr
               /\ polkit.isAuthorized
    /\ (CredsObtained /\ creds.uid.val = 0) => polkitCalls = 0
    /\ authErr # NoErr => authErr[1] = "permission denied"
    /\ (creds.lookupErr \/ creds.uid = NaN \/ creds.pid = NaN)
         => authErr # NoErr
    /\ (CredsObtained /\ creds.uid.val # 0) =>
         /\ (~statFile.open \/ ~statFile.readOk
               \/ statFile.contents \in MalformedStats)
              => (authErr # NoErr /\ polkitCalls = 0)
         /\ (polkit.callErr \/ ~polkit.isAuthorized) => authErr # NoErr

\* a sender that is not root, with a well-formed stat file, was denied by
\* polkit and CheckSenderAllowed returned an error
C29_Witness ==
  /\ authPc = "done"
  /\ CredsObtained /\ creds.uid.val # 0
  /\ statFile.contents \in GoodStats
  /\ startTime # NoStartTime
  /\ polkitCalls = 1
  /\ ~polkit.callErr /\ ~polkit.isAuthorized
  /\ authErr = <<"permission denied", "polkit denied access">>

(***************************************************************************)
(* Further properties of the Lifecycle and of the context-based App        *)
(***************************************************************************)

\* C31: no request executes Start() after a Quit() has returned: the quit
\* check and Start() of an Apply call are atomic with respect to Quit().
C31_NoStartAfterQuit ==
  [][\A r \in Reqs :
       (pc[r] = "start" /\ pc'[r] = "firstRun") => ~SomeQuitReturned]_vars

Decremented == {r \in Reqs : pc[r] \in {"unlock", "done"}}

\* C34: the started signal is fired by a run that is already on the counter:
\* when started has fired and no run has yet been taken off the counter by
\* RunDone(), the counter is at least 1, and counter.Wait() in the started
\* case of Wait() cannot return.
C34_CountedBeforeStarted ==
  /\ [](startedClosed =>
          /\ counter + Cardinality(Decremented) >= 1
          /\ Outstanding # {} => counter >= 1
          /\ Decremented = {} =>
               /\ counter >= 1
               /\ wpc \notin {"join"}
               /\ wpc = "counterWait" => ~ENABLED WaitCounter)
  /\ [][(~startedClosed /\ startedClosed') => counter >= 1]_vars

\* started has fired, the first run is still in its protected section and
\* Wait() is blocked in counter.Wait() in the started case
C34_Witness ==
  /\ startedClosed
  /\ Decremented = {}
  /\ counter = 1
  /\ \E r \in Reqs : pc[r] = "apply"
  /\ wpc = "counterWait"

\* runs with a RunDone() call in progress: past the append, not yet returned
InRunDone == {r \in Reqs : pc[r] \in {"decrement", "unlock"}}
\* runs whose RunDone() call has returned
Completed == {r \in Reqs : pc[r] = "done"}

\* C35: when no RunDone() call is in progress, the error collection has one
\* entry per completed RunDone() call, the nil of a successful run included
\* (the non-nil entries are the errors of the completed runs that failed, one
\* each), and the number of runs that entered Start() is the counter plus the
\* number of entries.
C35_OneEntryPerRunDone ==
  InRunDone = {} =>
    /\ Len(errors) = Cardinality(Completed)
    /\ \A r \in Completed :
         Cardinality({i \in DOMAIN errors : errors[i] = err[r]})
           = Cardinality({r2 \in Completed : err[r2] = err[r]})
    /\ \A i \in DOMAIN errors : \E r \in Completed : errors[i] = err[r]
    /\ Cardinality(Entered) = counter + Len(errors)

\* a successful and a failed run have completed, no RunDone() is in progress
\* and the collection holds a nil entry and an error
C35_Witness ==
  /\ InRunDone = {}
  /\ \E r1, r2 \in Completed : err[r1] = NilErr /\ err[r2] # NilErr
  /\ Len(errors) = 2
  /\ \E i \in DOMAIN errors : errors[i] = NilErr

\* C36: Wait() never reads the error collection for errors.Join while a run
\* is about to append its error in RunDone(): the two unsynchronised
\* accesses are never both possible in the same state.
C36_NoConcurrentAppend ==
  ~(wpc = "join" /\ \E r \in Reqs : pc[r] = "runDone")

\* C37: with Quit() not called, App.Wait() does not return while an Apply
\* call is executing, that is, while a call is in IsSenderAllowed or in
\* proxy.Apply, also when several calls are queued on the mutex.
C37_WaitNotDuringApply ==
  [][(cqpc = "idle" /\ cwpc # "returned" /\ cwpc' = "returned") =>
       \A c \in Calls : cpc[c] \notin {"auth", "apply"}]_vars

\* C38: the first cancellation of the context, by the deferred cancel(err)
\* of an Apply call or by Quit(), sets the cause, and no later cancellation
\* changes it; what Wait() returns is nil or that cause (nil for
\* context.Canceled), never the error of a later Apply call, and it does
\* not change once returned.
C38_FirstCancellationDecides ==
  /\ [][ctxDone => (ctxDone' /\ ctxCause' = ctxCause)]_vars
  /\ [][(~ctxDone /\ ctxDone') =>
          \/ \E c \in Calls : /\ cpc[c] = "cancel" /\ cpc'[c] = "unlock"
                              /\ ctxCause' = CauseOf(cerr[c])
          \/ /\ cqpc = "cancel" /\ cqpc' = "returned"
             /\ ctxCause' = Canceled]_vars
  /\ [](cwpc = "returned" => cwResult \in {NilErr, WaitOutcome(ctxCause)})
  /\ [](waitPath = "done" => (ctxDone /\ cwResult = WaitOutcome(ctxCause)))
  /\ [][cwpc = "returned" => UNCHANGED <<cwpc, cwResult>>]_vars

\* the first Apply call succeeded and cancelled the context, a later call
\* failed, and Wait() returned nil through the ctx.Done() case
C38_Witness ==
  \E c1, c2 \in Calls :
    /\ cpc[c1] = "done" /\ cerr[c1] = NilErr
    /\ cpc[c2] = "done" /\ cerr[c2] # NilErr
    /\ ctxCause = Canceled
    /\ waitPath = "done"
    /\ cwResult = NilErr

====
